---- MODULE Spec2Model ----
(***************************************************************************)
(* Reliable-UDP transport of the multiplayer core (NetworkClient): the     *)
(* lock-free ring queue, the per-peer sliding window of reliable packets,  *)
(* the receive bitmask, the retransmission sweep and the receive thread.   *)
(*                                                                         *)
(* Conventions                                                             *)
(*  - a uint32_t bit mask is the set of its set bit indexes (0..31);       *)
(*  - a uint16_t sequence number is a natural below 2^16, differences are  *)
(*    taken as the code takes them, through a cast to int16_t;             *)
(*  - time is counted in milliseconds; every dt is a multiple of 10 ms, so *)
(*    that 1.1 x RTT is an exact integer;                                  *)
(*  - every handler is a function from the endpoint record to the endpoint *)
(*    record after the call; what the call hands to the socket and to the  *)
(*    callbacks is logged in the fields socket_out and cb_removed.         *)
(***************************************************************************)
EXTENDS Integers, Sequences, FiniteSets, TLC

VARIABLES
    net,      \* the NetworkClient (peers, queues, packet pool, clock)
    app,      \* what the application has observed of the endpoint
    cfg,      \* the environment of the run: input sets, fixed by Init
    budget,   \* how many more calls of each kind the environment makes
    qs,       \* fine-grained state of the queues shared by the two threads
    th,       \* the two threads' positions and locals in the fine-grained runs
    SERVER,   \* the game server's state (part_003), in the runs of the server
    CLIENT    \* the game client's state (part_001), in the runs of the client

vars == <<net, app, cfg, budget, qs, th, SERVER, CLIENT>>

----------------------------------------------------------------------------
(* Program constants *)

\* bounds of the model
NumPeers == 3
AckSends == 2
AckRecvs == 2
SweepSends == 1
SweepUpdates == 2
WindowExtra == 2
RetryExtra == 2
ReceiverRecvs == 3
LiveSends == 1
LiveExtra == 1
RaceSends == 1
RaceRecvs == 2
QueueBits == 2
QueueExtra == 1
JoinRecvs == 3
InputSeqs == 3
InputRecvs == 3
InputIters == 2
ShotTimes == 2
ShotRecvs == 2
CorpseExtra == 1
LostExtra == 1
LeaveExtra == 1
LossyRecvs == 2
LossyFrames == 2
StaleExtra == 1
StaleRecvs == 2
StopSends == 1
StopRecvs == 2
StopCalls == 2
StopPolls == 2
WrapArrivals == 2
CrowdedExtra == 1
MapAdds == 34
MapLive == 2
StrangerRecvs == 2
SoloRecvs == 3
SoloFrames == 3
LaterRecvs == 3
LaterFrames == 2
DriftRecvs == 3
DriftFrames == 2
StarvedRecvs == 3
StarvedFrames == 10

MAX_PEERS == 16
PACKET_POOL_SIZE == 256
WINDOW_SIZE == 32
MAX_RETRANSMIT_ATTEMPTS == 10
\* PEER_INACTIVITY_TIMEOUT 4.0f seconds, in milliseconds
PEER_INACTIVITY_TIMEOUT == 4000
\* sizeof(PacketHeader) under #pragma pack(1): 1 + 1 + 2 + 4 + 2
HEADER_SIZE == 10
\* the width of the ack bitfield (uint32_t ack_bits)
ACK_BITS == 32
\* uint16_t sequence numbers
SEQ_MOD == 65536

----------------------------------------------------------------------------
(* Integer helpers *)

U16(x) == x % SEQ_MOD

\* the difference taken in int, without the cast to int16_t
CALCULATE_SEQUENCE_OFFSET_int(new_seq, old_seq) == new_seq - old_seq

\* (int16_t)(a - b)
CALCULATE_SEQUENCE_OFFSET(new_seq, old_seq) ==
    LET m == (new_seq - old_seq) % SEQ_MOD
    IN  IF m >= SEQ_MOD \div 2 THEN m - SEQ_MOD ELSE m

MAP_SEQUENCE_TO_WINDOW_SLOT(sequence) == sequence % WINDOW_SIZE

\* __builtin_ctz on a non-zero mask
find_lowest_set_bit(mask) == CHOOSE b \in mask : \A c \in mask : b <= c

\* The outcomes of `ack_bits <<= diff' on a uint32_t.  For diff < 32 the
\* result is defined.  For diff = 32 the shift count equals the width of the
\* type, which is undefined behaviour: builds either use the count modulo 32
\* (x86: the mask is left as it was) or shift everything out (the mask is 0).
SHIFT_ACK_WINDOW_FOR_NEW_PACKET(ack_bits, diff) ==
    IF diff < ACK_BITS
    THEN {{k + diff : k \in {j \in ack_bits : j + diff < ACK_BITS}}}
    ELSE {ack_bits, {}}

----------------------------------------------------------------------------
(* lock_free_queue<T, Capacity>, called from one thread at a time *)

\* a queue whose buffer cells hold `fill' before anything is pushed
EmptyQueue(Capacity, fill) ==
    [write_pos |-> 0, read_pos |-> 0, buffer |-> [i \in 0..(Capacity - 1) |-> fill]]

QueueCapacity(q) == Cardinality(DOMAIN q.buffer)

\* try_push: [ok, q]
try_push(q, item, Capacity) ==
    LET write == q.write_pos
        next_write == (write + 1) % Capacity
    IN  IF next_write = q.read_pos
        THEN [ok |-> FALSE, q |-> q]
        ELSE [ok |-> TRUE,
              q  |-> [q EXCEPT !.buffer[write] = item, !.write_pos = next_write]]

\* try_pop: [ok, item, q]
try_pop(q, Capacity) ==
    LET read == q.read_pos
    IN  IF read = q.write_pos
        THEN [ok |-> FALSE, item |-> q.buffer[read], q |-> q]
        ELSE [ok |-> TRUE, item |-> q.buffer[read],
              q  |-> [q EXCEPT !.read_pos = (read + 1) % Capacity]]

\* the items a queue holds, oldest first
QueueItems(q, Capacity) ==
    [i \in 1..((q.write_pos - q.read_pos + Capacity) % Capacity) |->
        q.buffer[(q.read_pos + i - 1) % Capacity]]

QueueLen(q, Capacity) == (q.write_pos - q.read_pos + Capacity) % Capacity

(* lock_free_queue<T, Capacity>, called from two threads: a call is a
   sequence of steps, one per load or store, on the thread's locals *)

\* the locals of a thread that is not in a call
NoCallLocals ==
    [pc |-> "idle", item |-> 0, write |-> 0, next_write |-> 0, read |-> 0, ret |-> FALSE]

\* the locals on entry to try_push(item) and to try_pop
PushCall(item) == [NoCallLocals EXCEPT !.pc = "load_write", !.item = item]
PopCall == [NoCallLocals EXCEPT !.pc = "load_read"]

InCall(t) == t.pc \notin {"idle", "done"}

\* try_push that publishes write_pos before it writes the cell
PushStep_publish_first(q, t, Capacity) ==
    CASE t.pc = "load_write" ->
            [q |-> q, t |-> [t EXCEPT !.write = q.write_pos,
                                      !.next_write = (q.write_pos + 1) % Capacity,
                                      !.pc = "load_read"]]
      [] t.pc = "load_read" ->
            IF t.next_write = q.read_pos
            THEN [q |-> q, t |-> [t EXCEPT !.pc = "done", !.ret = FALSE]]
            ELSE [q |-> q, t |-> [t EXCEPT !.pc = "store_write"]]
      [] t.pc = "store_write" ->
            [q |-> [q EXCEPT !.write_pos = t.next_write],
             t |-> [t EXCEPT !.pc = "store_value"]]
      [] t.pc = "store_value" ->
            [q |-> [q EXCEPT !.buffer[t.write] = t.item],
             t |-> [t EXCEPT !.pc = "done", !.ret = TRUE]]

\* one step of try_push: [q, t]
PushStep(q, t, Capacity) ==
    CASE t.pc = "load_write" ->
            [q |-> q, t |-> [t EXCEPT !.write = q.write_pos,
                                      !.next_write = (q.write_pos + 1) % Capacity,
                                      !.pc = "load_read"]]
      [] t.pc = "load_read" ->
            IF t.next_write = q.read_pos
            THEN [q |-> q, t |-> [t EXCEPT !.pc = "done", !.ret = FALSE]]
            ELSE [q |-> q, t |-> [t EXCEPT !.pc = "store_value"]]
      [] t.pc = "store_value" ->
            [q |-> [q EXCEPT !.buffer[t.write] = t.item],
             t |-> [t EXCEPT !.pc = "store_write"]]
      [] t.pc = "store_write" ->
            [q |-> [q EXCEPT !.write_pos = t.next_write],
             t |-> [t EXCEPT !.pc = "done", !.ret = TRUE]]

\* one step of try_pop: [q, t]
PopStep(q, t, Capacity) ==
    CASE t.pc = "load_read" ->
            [q |-> q, t |-> [t EXCEPT !.read = q.read_pos, !.pc = "load_write"]]
      [] t.pc = "load_write" ->
            IF t.read = q.write_pos
            THEN [q |-> q, t |-> [t EXCEPT !.pc = "done", !.ret = FALSE]]
            ELSE [q |-> q, t |-> [t EXCEPT !.pc = "load_value"]]
      [] t.pc = "load_value" ->
            [q |-> q, t |-> [t EXCEPT !.item = q.buffer[t.read], !.pc = "store_read"]]
      [] t.pc = "store_read" ->
            [q |-> [q EXCEPT !.read_pos = (t.read + 1) % Capacity],
             t |-> [t EXCEPT !.pc = "done", !.ret = TRUE]]

----------------------------------------------------------------------------
(* Records of network_client.hpp *)

\* the addresses the model knows; hash_sockaddr of an address is its number
PeerIds == 1..NumPeers

\* fixed_map<uint32_t, PeerState, MAX_PEERS>: a key maps to a PeerState or to
\* NoPeer (no occupied entry for the key)
NoPeer == [present |-> FALSE]

\* PacketHeader followed by the payload; `reliable' is bit 0 of flags
Packet(sequence, ack, ack_bits, reliable, payload) ==
    [sequence |-> sequence, ack |-> ack, ack_bits |-> ack_bits,
     reliable |-> reliable, payload |-> payload]

\* a zeroed PacketBuffer
ZeroPacket == Packet(0, 0, {}, FALSE, 0)

\* PendingPacket, zero-initialized
ZeroPending ==
    [buffer_idx |-> 0, size |-> 0, send_time |-> 0,
     next_retransmit_time |-> 0, retry_count |-> 0]

\* PeerState peer = {}; peer.address = addr; peer.last_seen_time = now
NewPeer(addr, now) ==
    [present |-> TRUE,
     address |-> addr,
     local_sequence |-> 0,
     remote_sequence |-> 0,
     remote_ack_bits |-> {},
     window_start |-> 0,
     window_mask |-> {},
     window |-> [s \in 0..(WINDOW_SIZE - 1) |-> ZeroPending],
     last_seen_time |-> now,
     round_trip_time |-> 0]

PeersSize(n) == Cardinality({id \in PeerIds : n.peers[id].present})

\* udp_send: the datagram is handed to the socket
udp_send(n, packet, size, dest, retransmit) ==
    [n EXCEPT !.socket_out = Append(@,
        [to |-> dest, packet |-> packet, size |-> size, retransmit |-> retransmit])]

----------------------------------------------------------------------------
(* part_000: acknowledgements *)

\* acknowledge_packet without the push that frees the buffer
acknowledge_packet_leak(n, id, sequence) ==
    LET peer == n.peers[id]
        diff == CALCULATE_SEQUENCE_OFFSET(sequence, peer.window_start)
        slot == MAP_SEQUENCE_TO_WINDOW_SLOT(sequence)
    IN  IF diff < 0 \/ diff >= WINDOW_SIZE THEN n
        ELSE IF slot \notin peer.window_mask THEN n
        ELSE [n EXCEPT
                !.peers[id].round_trip_time =
                    n.current_time - peer.window[slot].send_time,
                !.peers[id].window_mask = @ \ {slot}]

\* acknowledge_packet without the test of the distance to window_start
acknowledge_packet_any(n, id, sequence) ==
    LET peer == n.peers[id]
        slot == MAP_SEQUENCE_TO_WINDOW_SLOT(sequence)
        rtt  == n.current_time - peer.window[slot].send_time
    IN  IF slot \notin peer.window_mask THEN n
        ELSE [n EXCEPT
                !.peers[id].round_trip_time = rtt,
                !.free_indices =
                    try_push(@, peer.window[slot].buffer_idx, PACKET_POOL_SIZE).q,
                !.peers[id].window_mask = @ \ {slot}]

acknowledge_packet(n, id, sequence) ==
    LET peer == n.peers[id]
        diff == CALCULATE_SEQUENCE_OFFSET(sequence, peer.window_start)
        slot == MAP_SEQUENCE_TO_WINDOW_SLOT(sequence)
        rtt  == n.current_time - peer.window[slot].send_time
    IN  IF diff < 0 \/ diff >= WINDOW_SIZE THEN n
        ELSE IF slot \notin peer.window_mask THEN n
        ELSE [n EXCEPT
                !.peers[id].round_trip_time = rtt,
                !.free_indices =
                    try_push(@, peer.window[slot].buffer_idx, PACKET_POOL_SIZE).q,
                !.peers[id].window_mask = @ \ {slot}]

\* the while loop over the set bits; the comparison with n only makes the
\* evaluator finish one acknowledgement before it starts the next
RECURSIVE AckBitsLoop(_, _, _, _)
AckBitsLoop(n, id, most_recent_ack, ack_bits) ==
    IF ack_bits = {} THEN n
    ELSE LET bit_index == find_lowest_set_bit(ack_bits)
             seq == U16(most_recent_ack - bit_index - 1)
             acked == acknowledge_packet(n, id, seq)
         IN  IF acked = n
             THEN AckBitsLoop(n, id, most_recent_ack, ack_bits \ {bit_index})
             ELSE AckBitsLoop(acked, id, most_recent_ack, ack_bits \ {bit_index})

process_ack_bitmask(n, id, most_recent_ack, ack_bits) ==
    AckBitsLoop(acknowledge_packet(n, id, most_recent_ack), id, most_recent_ack, ack_bits)

RECURSIVE AdvanceLoop(_)
AdvanceLoop(peer) ==
    IF peer.window_mask = {} THEN peer
    ELSE IF MAP_SEQUENCE_TO_WINDOW_SLOT(peer.window_start) \in peer.window_mask THEN peer
    ELSE AdvanceLoop([peer EXCEPT !.window_start = U16(@ + 1)])

\* advance_window_start that collapses an empty window to sequence 0
advance_window_start_reset(peer) ==
    LET p == AdvanceLoop(peer)
    IN  IF p.window_mask = {} THEN [p EXCEPT !.window_start = 0] ELSE p

advance_window_start(peer) ==
    LET p == AdvanceLoop(peer)
    IN  IF p.window_mask = {} THEN [p EXCEPT !.window_start = p.local_sequence] ELSE p

\* is_new_packet: the set of outcomes [is_new, peer] (one, unless the shift
\* is undefined)
is_new_packet(sequence, peer) ==
    LET diff == CALCULATE_SEQUENCE_OFFSET(sequence, peer.remote_sequence)
    IN  IF diff > 0
        THEN IF diff <= ACK_BITS
             THEN {[is_new |-> TRUE,
                    peer |-> [peer EXCEPT !.remote_ack_bits = shifted \cup {diff - 1},
                                          !.remote_sequence = sequence]] :
                   shifted \in SHIFT_ACK_WINDOW_FOR_NEW_PACKET(peer.remote_ack_bits, diff)}
             ELSE {[is_new |-> TRUE,
                    peer |-> [peer EXCEPT !.remote_ack_bits = {},
                                          !.remote_sequence = sequence]]}
        ELSE IF diff = 0 THEN {[is_new |-> FALSE, peer |-> peer]}
        ELSE IF (-diff) >= ACK_BITS THEN {[is_new |-> FALSE, peer |-> peer]}
        ELSE LET bit_index == -diff - 1
                 already_received == bit_index \in peer.remote_ack_bits
             IN  {[is_new |-> ~already_received,
                   peer |-> [peer EXCEPT !.remote_ack_bits = @ \cup {bit_index}]]}

----------------------------------------------------------------------------
(* part_000: peers *)

network_add_peer(n, id) ==
    IF PeersSize(n) >= MAX_PEERS THEN n
    ELSE IF n.peers[id].present THEN n
    ELSE [n EXCEPT !.peers[id] = NewPeer(id, n.current_time)]

RECURSIVE FreeSlotsLoop(_, _, _)
FreeSlotsLoop(q, peer, slots_to_free) ==
    IF slots_to_free = {} THEN q
    ELSE LET slot == find_lowest_set_bit(slots_to_free)
             pushed == try_push(q, peer.window[slot].buffer_idx, PACKET_POOL_SIZE)
         IN  IF pushed.ok THEN FreeSlotsLoop(pushed.q, peer, slots_to_free \ {slot})
             ELSE FreeSlotsLoop(q, peer, slots_to_free \ {slot})

\* network_remove_peer without peers.remove(peer_id)
network_remove_peer_keep(n, id) ==
    LET peer == n.peers[id]
    IN  IF ~peer.present THEN n
        ELSE [n EXCEPT
                !.free_indices = FreeSlotsLoop(@, peer, peer.window_mask),
                !.cb_removed = IF n.on_peer_removed THEN Append(@, id) ELSE @]

network_remove_peer(n, id) ==
    LET peer == n.peers[id]
    IN  IF ~peer.present THEN n
        ELSE [n EXCEPT
                !.free_indices = FreeSlotsLoop(@, peer, peer.window_mask),
                !.peers[id] = NoPeer,
                !.cb_removed = IF n.on_peer_removed THEN Append(@, id) ELSE @]

----------------------------------------------------------------------------
(* part_000: the retransmission sweep *)

\* round_trip_time * 1.1
RetransmissionTimeout(rtt) == (rtt * 11) \div 10

\* RetransmitLoop that gives up only when retry_count exceeds the limit
RECURSIVE RetransmitLoop_gt(_, _, _)
RetransmitLoop_gt(n, id, slots_to_check) ==
    IF slots_to_check = {} THEN n
    ELSE LET slot == find_lowest_set_bit(slots_to_check)
             peer == n.peers[id]
             pending == peer.window[slot]
             sent == udp_send(n, n.packet_pool[pending.buffer_idx],
                              pending.size, peer.address, TRUE)
             upd == [sent EXCEPT
                      !.peers[id].window[slot].retry_count = @ + 1,
                      !.peers[id].window[slot].next_retransmit_time =
                          n.current_time + RetransmissionTimeout(peer.round_trip_time)]
         IN  IF n.current_time >= pending.next_retransmit_time
             THEN IF pending.retry_count > MAX_RETRANSMIT_ATTEMPTS
                  THEN network_remove_peer(n, id)
                  ELSE IF upd = n
                  THEN RetransmitLoop_gt(n, id, slots_to_check \ {slot})
                  ELSE RetransmitLoop_gt(upd, id, slots_to_check \ {slot})
             ELSE RetransmitLoop_gt(n, id, slots_to_check \ {slot})

\* the while loop over the slots in use; the comparison with n only makes
\* the evaluator finish one slot before it starts the next
RECURSIVE RetransmitLoop(_, _, _)
RetransmitLoop(n, id, slots_to_check) ==
    IF slots_to_check = {} THEN n
    ELSE LET slot == find_lowest_set_bit(slots_to_check)
             peer == n.peers[id]
             pending == peer.window[slot]
             sent == udp_send(n, n.packet_pool[pending.buffer_idx],
                              pending.size, peer.address, TRUE)
             upd == [sent EXCEPT
                      !.peers[id].window[slot].retry_count = @ + 1,
                      !.peers[id].window[slot].next_retransmit_time =
                          n.current_time + RetransmissionTimeout(peer.round_trip_time)]
         IN  IF n.current_time >= pending.next_retransmit_time
             THEN IF pending.retry_count >= MAX_RETRANSMIT_ATTEMPTS
                  THEN network_remove_peer(n, id)
                  ELSE IF upd = n
                  THEN RetransmitLoop(n, id, slots_to_check \ {slot})
                  ELSE RetransmitLoop(upd, id, slots_to_check \ {slot})
             ELSE RetransmitLoop(n, id, slots_to_check \ {slot})

check_peer_retransmits(n, id) == RetransmitLoop(n, id, n.peers[id].window_mask)

\* SweepLoop that retransmits to a peer before it prunes it
RECURSIVE SweepLoop_late(_, _)
SweepLoop_late(n, ids) ==
    IF ids = {} THEN n
    ELSE LET id == CHOOSE i \in ids : \A j \in ids : i <= j
             rest == ids \ {id}
             checked == check_peer_retransmits(n, id)
         IN  IF ~n.peers[id].present THEN SweepLoop_late(n, rest)
             ELSE IF ~checked.peers[id].present THEN SweepLoop_late(checked, rest)
             ELSE IF n.current_time - n.peers[id].last_seen_time > PEER_INACTIVITY_TIMEOUT
             THEN SweepLoop_late(network_remove_peer(checked, id), rest)
             ELSE SweepLoop_late(checked, rest)

\* the range-for over the peer table, in table order; an entry removed
\* before the iterator reaches it is skipped
RECURSIVE SweepLoop(_, _)
SweepLoop(n, ids) ==
    IF ids = {} THEN n
    ELSE LET id == CHOOSE i \in ids : \A j \in ids : i <= j
             rest == ids \ {id}
         IN  IF ~n.peers[id].present THEN SweepLoop(n, rest)
             ELSE IF n.current_time - n.peers[id].last_seen_time > PEER_INACTIVITY_TIMEOUT
             THEN SweepLoop(network_remove_peer(n, id), rest)
             ELSE SweepLoop(check_peer_retransmits(n, id), rest)

network_update(n, dt) ==
    SweepLoop([n EXCEPT !.current_time = @ + dt], PeerIds)

----------------------------------------------------------------------------
(* network_client.hpp: sending and releasing *)

network_release_buffer(n, buffer_idx) ==
    [n EXCEPT !.free_indices = try_push(@, buffer_idx, PACKET_POOL_SIZE).q]

\* sizeof(SendPacket<T>) for a payload of payload_size bytes
TotalSize(payload_size) == HEADER_SIZE + payload_size

\* the part of network_send behind the window check: number, stamp and send
\* the packet, and for a reliable one keep it in the window
SendAccepted(n, id, payload, payload_size, reliable, buffer_idx) ==
    LET peer == n.peers[id]
        seq == U16(peer.local_sequence + 1)
        packet == Packet(seq, peer.remote_sequence, peer.remote_ack_bits, reliable, payload)
        total_size == TotalSize(payload_size)
        sent == udp_send([n EXCEPT !.peers[id].local_sequence = seq],
                         packet, total_size, peer.address, FALSE)
        slot == seq % WINDOW_SIZE
    IN  IF ~reliable THEN sent
        ELSE [sent EXCEPT
                !.packet_pool[buffer_idx] = packet,
                !.peers[id].window[slot] =
                    [buffer_idx |-> buffer_idx,
                     size |-> total_size,
                     send_time |-> n.current_time,
                     next_retransmit_time |->
                         n.current_time + RetransmissionTimeout(peer.round_trip_time),
                     retry_count |-> 0],
                !.peers[id].window_mask = @ \cup {slot}]

\* network_send without the window check
network_send_unchecked(n, id, payload, payload_size, reliable) ==
    LET peer == n.peers[id]
        pop == try_pop(n.free_indices, PACKET_POOL_SIZE)
        popped == [n EXCEPT !.free_indices = pop.q]
    IN  IF ~peer.present THEN n
        ELSE IF ~reliable THEN SendAccepted(n, id, payload, payload_size, FALSE, 0)
        ELSE IF ~pop.ok THEN n
        ELSE SendAccepted(popped, id, payload, payload_size, TRUE, pop.item)

\* network_send taking a pool buffer for every packet, reliable or not
network_send_pooled(n, id, payload, payload_size, reliable) ==
    LET peer == n.peers[id]
        pop == try_pop(n.free_indices, PACKET_POOL_SIZE)
        popped == [n EXCEPT !.free_indices = pop.q]
    IN  IF ~peer.present THEN n
        ELSE IF ~pop.ok THEN n
        ELSE SendAccepted(popped, id, payload, payload_size, reliable, pop.item)

\* what a call of network_send hands back to its caller: the function is
\* declared static void, and each of its paths returns without a value; the
\* refusals are only printed
network_send_result(n, id, reliable) == "void"

network_send(n, id, payload, payload_size, reliable) ==
    LET peer == n.peers[id]
        pop == try_pop(n.free_indices, PACKET_POOL_SIZE)
        popped == [n EXCEPT !.free_indices = pop.q]
        next_seq == U16(peer.local_sequence + 1)
        diff == CALCULATE_SEQUENCE_OFFSET(next_seq, peer.window_start)
    IN  IF ~peer.present THEN n
        ELSE IF ~reliable THEN SendAccepted(n, id, payload, payload_size, FALSE, 0)
        ELSE IF ~pop.ok THEN n
        ELSE IF diff < 0 \/ diff >= WINDOW_SIZE
        THEN [popped EXCEPT !.free_indices = try_push(@, pop.item, PACKET_POOL_SIZE).q]
        ELSE SendAccepted(popped, id, payload, payload_size, TRUE, pop.item)

----------------------------------------------------------------------------
(* part_000: network_poll *)

\* OnUnrecognised of an endpoint whose callback adds and accepts every sender
OnUnrecognised_open(n, from) == [accept |-> TRUE, n |-> network_add_peer(n, from)]

\* bool (*on_unrecognised)(sockaddr_in): the server's add_unrecognised adds
\* the sender as a peer and accepts iff network_add_peer returned non-zero;
\* an endpoint without the callback accepts nobody
OnUnrecognised(n, from) ==
    IF ~n.on_unrecognised THEN [accept |-> FALSE, n |-> n]
    ELSE LET added == network_add_peer(n, from)
         IN  [accept |-> added.peers[from].present, n |-> added]

\* One pass of the loop body for a popped descriptor whose sender is a peer:
\* the outcomes [is_new, n]
ProcessPacket(n, info) ==
    LET header == n.packet_pool[info.buffer_index]
        id == info.from
        seen == [n EXCEPT !.peers[id].last_seen_time = n.current_time]
        acked == process_ack_bitmask(seen, id, header.ack, header.ack_bits)
        advanced == [acked EXCEPT !.peers[id] = advance_window_start(@)]
    IN  {[is_new |-> o.is_new, n |-> [advanced EXCEPT !.peers[id] = o.peer]] :
         o \in is_new_packet(header.sequence, advanced.peers[id])}

\* what one network_poll call did with one descriptor
PollEntry(n, info, known, is_new) ==
    [from |-> info.from,
     header |-> n.packet_pool[info.buffer_index],
     buffer_index |-> info.buffer_index,
     known |-> known,
     window_start |-> IF n.peers[info.from].present
                      THEN n.peers[info.from].window_start ELSE 0,
     window_mask |-> IF n.peers[info.from].present
                     THEN n.peers[info.from].window_mask ELSE {},
     is_new |-> is_new]

\* network_poll: the outcomes [ok, polled, n, log]; log lists the descriptors
\* the call popped, each with the peer's window as it was before the packet
RECURSIVE PollLoop(_, _)
PollLoop(n, log) ==
    LET pop == try_pop(n.recv_queue, PACKET_POOL_SIZE)
        info == pop.item
        popped == [n EXCEPT !.recv_queue = pop.q]
        known == popped.peers[info.from].present
        unrec == OnUnrecognised(popped, info.from)
        resolved == IF known THEN popped ELSE unrec.n
        drop(m) == [m EXCEPT !.free_indices =
                        try_push(@, info.buffer_index, PACKET_POOL_SIZE).q]
    IN  IF ~pop.ok
        THEN {[ok |-> FALSE, polled |-> [buffer_index |-> 0], n |-> n, log |-> log]}
        ELSE IF ~known /\ ~unrec.accept
        THEN PollLoop(drop(unrec.n), Append(log, PollEntry(popped, info, FALSE, FALSE)))
        ELSE UNION {
               IF o.is_new
               THEN {[ok |-> TRUE,
                      polled |-> [from |-> info.from,
                                  sequence |-> popped.packet_pool[info.buffer_index].sequence,
                                  payload |-> popped.packet_pool[info.buffer_index].payload,
                                  size |-> info.size - HEADER_SIZE,
                                  buffer_index |-> info.buffer_index],
                      n |-> o.n,
                      log |-> Append(log, PollEntry(resolved, info, known, TRUE))]}
               ELSE PollLoop(drop(o.n), Append(log, PollEntry(resolved, info, known, FALSE)))
               : o \in ProcessPacket(resolved, info)}

network_poll(n) == PollLoop(n, <<>>)

----------------------------------------------------------------------------
(* part_000: one iteration of NetworkClient::receive_thread_func *)

\* dgram: what udp_receive returns; bytes < 0 is a timeout or an error
receive_thread_func(n, dgram) ==
    LET pop == try_pop(n.free_indices, PACKET_POOL_SIZE)
        buffer_idx == pop.item
        popped == [n EXCEPT !.free_indices = pop.q]
        filled == IF dgram.bytes >= HEADER_SIZE
                  THEN [popped EXCEPT !.packet_pool[buffer_idx] = dgram.packet]
                  ELSE popped
        info == [buffer_index |-> buffer_idx, from |-> dgram.from, size |-> dgram.bytes]
        push == try_push(filled.recv_queue, info, PACKET_POOL_SIZE)
        back(m) == [m EXCEPT !.free_indices =
                        try_push(@, buffer_idx, PACKET_POOL_SIZE).q]
    IN  IF ~n.running THEN n
        ELSE IF ~pop.ok THEN n
        ELSE IF dgram.bytes >= HEADER_SIZE
        THEN IF push.ok THEN [filled EXCEPT !.recv_queue = push.q] ELSE back(filled)
        ELSE back(filled)

----------------------------------------------------------------------------
(* part_000: network_init *)

\* for (i = lo; i <= hi; i++) free_indices.try_push(i), the results ignored.
\* The range is split in halves, and the first half compared with q, only to
\* keep the evaluation of the 256 pushes shallow.
RECURSIVE InitFreeLoop(_, _, _)
InitFreeLoop(q, lo, hi) ==
    IF lo = hi THEN try_push(q, lo, PACKET_POOL_SIZE).q
    ELSE LET mid == (lo + hi) \div 2
             first == InitFreeLoop(q, lo, mid)
         IN  IF first = q THEN InitFreeLoop(q, mid + 1, hi)
             ELSE InitFreeLoop(first, mid + 1, hi)

ZeroInfo == [buffer_index |-> 0, from |-> 0, size |-> 0]

\* the endpoint after network_init; the callbacks are what the owner sets
\* right after it (the server sets both, the clients none)
network_init(server) ==
    [running |-> TRUE,
     current_time |-> 0,
     on_peer_removed |-> server,
     on_unrecognised |-> server,
     packet_pool |-> [i \in 0..(PACKET_POOL_SIZE - 1) |-> ZeroPacket],
     free_indices |-> InitFreeLoop(EmptyQueue(PACKET_POOL_SIZE, 0), 0, PACKET_POOL_SIZE - 1),
     recv_queue |-> EmptyQueue(PACKET_POOL_SIZE, ZeroInfo),
     peers |-> [id \in PeerIds |-> NoPeer],
     socket_out |-> <<>>,
     cb_removed |-> <<>>]

----------------------------------------------------------------------------
(* The environment: the application on the main thread, the receive thread
   and the network.  A scenario fixes the sets the inputs are drawn from. *)

\* bags of <<peer, sequence>> pairs
BagCount(b, x) == IF x \in DOMAIN b THEN b[x] ELSE 0
BagAdd(b, x) == IF x \in DOMAIN b THEN [b EXCEPT ![x] = @ + 1] ELSE b @@ (x :> 1)
BagKeep(b, keep) == [x \in {y \in DOMAIN b : keep[y[1]]} |-> b[x]]

RECURSIVE BagAddAll(_, _)
BagAddAll(b, xs) ==
    IF xs = <<>> THEN b ELSE BagAddAll(BagAdd(b, Head(xs)), Tail(xs))

SelectPairs(log, Test(_), Pair(_)) ==
    LET kept == SelectSeq(log, Test)
    IN  [i \in 1..Len(kept) |-> Pair(kept[i])]

\* a call starts with empty logs of what it sent and which callbacks it made
Call(n) == [n EXCEPT !.socket_out = <<>>, !.cb_removed = <<>>]

Present(n) == [id \in PeerIds |-> n.peers[id].present]

\* the sequences a header acknowledges: its ack field and one per set bit
AckedSeqs(header) == {header.ack} \cup {U16(header.ack - k - 1) : k \in header.ack_bits}

\* the ledger the application and the wire keep of a call's effects:
\*   copies    transmissions of each reliable packet put on the wire
\*   acked     the packets the peer's headers have acknowledged
\*   arrived   descriptors of each packet of a known peer that poll examined
\*   surfaced  times each packet was returned by poll
\* a peer's entries are dropped when the peer leaves the table
Ledger(a, n2, log) ==
    LET IsRel(d) == d.packet.reliable
        WirePair(d) == <<d.to, d.packet.sequence>>
        Examined(e) == e.known \/ e.is_new
        LogPair(e) == <<e.from, e.header.sequence>>
        IsNew(e) == e.is_new
        newly == UNION {{<<log[i].from, q>> : q \in AckedSeqs(log[i].header)} :
                        i \in {j \in 1..Len(log) : Examined(log[j])}}
    IN  [a EXCEPT
            !.copies = BagKeep(BagAddAll(@, SelectPairs(n2.socket_out, IsRel, WirePair)),
                               Present(n2)),
            !.acked = {x \in @ \cup newly : Present(n2)[x[1]]},
            !.arrived = BagKeep(BagAddAll(@, SelectPairs(log, Examined, LogPair)),
                                Present(n2)),
            !.surfaced = BagKeep(BagAddAll(@, SelectPairs(log, IsNew, LogPair)),
                                 Present(n2))]

NoCall == [op |-> "none"]

\* the application and the network are active while at least cfg.settle
\* sweeps are still to come; the sweeps after that run over a quiet endpoint
Active == budget.updates >= cfg.settle

\* the application adds a peer (the clients add the server)
AddPeer ==
    /\ net.running
    /\ Active
    /\ budget.adds > 0
    /\ \E id \in cfg.dests :
        /\ ~net.peers[id].present
        /\ net' = network_add_peer(Call(net), id)
        /\ app' = [Ledger(app, net', <<>>) EXCEPT !.last = [op |-> "add", id |-> id]]
    /\ budget' = [budget EXCEPT !.adds = @ - 1]
    /\ UNCHANGED <<CLIENT, SERVER, cfg, qs, th>>

\* the application sends a message to a peer
Send ==
    /\ net.running
    /\ Active
    /\ budget.sends > 0
    /\ \E id \in cfg.dests :
        /\ net.peers[id].present
        /\ \E reliable \in (IF U16(net.peers[id].local_sequence + 1) \in cfg.rel_seqs
                            THEN {TRUE} ELSE {})
                       \cup (IF U16(net.peers[id].local_sequence + 1) \in cfg.unrel_seqs
                             THEN {FALSE} ELSE {}) :
            /\ net' = network_send(Call(net), id, 0, 1, reliable)
            /\ app' = [Ledger(app, net', <<>>) EXCEPT
                         !.last = [op |-> "send", id |-> id, reliable |-> reliable,
                                   returned |-> network_send_result(net, id, reliable)]]
    /\ budget' = [budget EXCEPT !.sends = @ - 1]
    /\ UNCHANGED <<CLIENT, SERVER, cfg, qs, th>>

\* the application polls the endpoint; its loops hand a polled buffer back
\* (network_release_buffer) before they poll again or run the sweep
Poll ==
    /\ net.running
    /\ Active
    /\ app.held = {}
    /\ QueueLen(net.recv_queue, PACKET_POOL_SIZE) > 0
    /\ \E o \in network_poll(Call(net)) :
        /\ net' = o.n
        /\ app' = [Ledger(app, o.n, o.log) EXCEPT
                     !.held = IF o.ok THEN @ \cup {o.polled.buffer_index} ELSE @,
                     !.last = [op |-> "poll", ok |-> o.ok, log |-> o.log]]
    /\ UNCHANGED <<CLIENT, SERVER, cfg, budget, qs, th>>

\* the application returns a polled buffer
Release ==
    /\ net.running
    /\ \E idx \in app.held :
        /\ net' = network_release_buffer(Call(net), idx)
        /\ app' = [app EXCEPT !.held = @ \ {idx},
                              !.last = [op |-> "release", buffer_index |-> idx]]
    /\ UNCHANGED <<CLIENT, SERVER, cfg, budget, qs, th>>

\* the main loop runs the retransmission sweep
Update ==
    /\ net.running
    /\ app.held = {}
    /\ budget.updates > 0
    /\ \E dt \in cfg.dts :
        /\ net' = network_update(Call(net), dt)
        /\ app' = [Ledger(app, net', <<>>) EXCEPT
                     !.last = [op |-> "update", dt |-> dt, before |-> net.peers]]
    /\ budget' = [budget EXCEPT !.updates = @ - 1]
    /\ UNCHANGED <<CLIENT, SERVER, cfg, qs, th>>

\* the headers a remote endpoint can put into a packet for this endpoint:
\* it acknowledges only what this endpoint has sent to it
Headers(id) ==
    LET sent == IF net.peers[id].present THEN net.peers[id].local_sequence ELSE 0
    IN  {h \in [sequence : cfg.seqs, ack : cfg.acks, ack_bits : cfg.ack_bits] :
            /\ sent \in cfg.arrive_at
            /\ h.ack <= sent
            /\ \A k \in h.ack_bits : h.ack - (k + 1) >= 0}

\* the receive thread runs one iteration of its loop: a datagram arrives or
\* the receive times out
Receive ==
    /\ net.running
    /\ Active
    /\ budget.recvs > 0
    /\ \E from \in cfg.senders, bytes \in cfg.sizes :
       \E h \in (IF bytes >= HEADER_SIZE THEN Headers(from)
                 ELSE {[sequence |-> 0, ack |-> 0, ack_bits |-> {}]}) :
        /\ net' = receive_thread_func(Call(net),
                     [from |-> from, bytes |-> bytes,
                      packet |-> Packet(h.sequence, h.ack, h.ack_bits, TRUE, 0)])
        /\ app' = [app EXCEPT !.last = [op |-> "recv", from |-> from, bytes |-> bytes]]
    /\ budget' = [budget EXCEPT !.recvs = @ - 1]
    /\ UNCHANGED <<CLIENT, SERVER, cfg, qs, th>>

----------------------------------------------------------------------------
(* Scenarios *)

\* Each scenario fixes: whether the endpoint is the server (which sets both
\* callbacks), the peers the application sends to and the addresses datagrams
\* come from, the sequence numbers the application sends reliably and
\* unreliably, the headers and sizes of the datagrams that arrive, the values
\* of the destination's local_sequence at which datagrams arrive, the dt of
\* the sweeps, and how many sends, receive-thread iterations and sweeps the
\* run makes.

\* a client and its server: reliable sends, then acknowledgements in any
\* order, repeated or missing
Acks ==
    [name |-> "acks", server |-> FALSE,
     dests |-> {1}, senders |-> {1},
     rel_seqs |-> 1..AckSends, unrel_seqs |-> {},
     seqs |-> {1}, acks |-> 0..AckSends, ack_bits |-> {{}, {0}},
     sizes |-> {HEADER_SIZE + 1}, arrive_at |-> {AckSends},
     dts |-> {100},
     sends |-> AckSends, recvs |-> AckRecvs, updates |-> 1,
     adds |-> 1, settle |-> 0]

\* a server and two clients: reliable sends, silence and sweeps
Sweep ==
    [name |-> "sweep", server |-> TRUE,
     dests |-> {1, 2}, senders |-> {1, 2},
     rel_seqs |-> 1..SweepSends, unrel_seqs |-> {},
     seqs |-> {1}, acks |-> {0}, ack_bits |-> {{}},
     sizes |-> {HEADER_SIZE + 1}, arrive_at |-> 0..SweepSends,
     dts |-> {100, PEER_INACTIVITY_TIMEOUT},
     sends |-> SweepSends, recvs |-> 1, updates |-> SweepUpdates,
     adds |-> 2, settle |-> 0]

\* a window filled with reliable packets
Window ==
    [name |-> "window", server |-> FALSE,
     dests |-> {1}, senders |-> {1},
     rel_seqs |-> 1..(WINDOW_SIZE + WindowExtra), unrel_seqs |-> {},
     seqs |-> {1}, acks |-> {0, 1, 2}, ack_bits |-> {{}},
     sizes |-> {HEADER_SIZE + 1}, arrive_at |-> {1, 2, WINDOW_SIZE},
     dts |-> {},
     sends |-> WINDOW_SIZE + WindowExtra, recvs |-> 1, updates |-> 0,
     adds |-> 1, settle |-> 0]

\* one reliable packet, unreliable ones behind it, and a reliable one again
Crowded ==
    [name |-> "crowded", server |-> FALSE,
     dests |-> {1}, senders |-> {1},
     rel_seqs |-> {1, WINDOW_SIZE, WINDOW_SIZE + 1},
     unrel_seqs |-> 1..WINDOW_SIZE,
     seqs |-> {1}, acks |-> {1}, ack_bits |-> {{}},
     sizes |-> {HEADER_SIZE + 1}, arrive_at |-> {WINDOW_SIZE},
     dts |-> {},
     sends |-> WINDOW_SIZE + CrowdedExtra, recvs |-> 1, updates |-> 0,
     adds |-> 1, settle |-> 0]

\* reliable packets overtaken by unreliable ones
Overtake ==
    [name |-> "overtake", server |-> FALSE,
     dests |-> {1}, senders |-> {1},
     rel_seqs |-> {1, 2}, unrel_seqs |-> 2..(WINDOW_SIZE + WindowExtra),
     seqs |-> {1},
     acks |-> {WINDOW_SIZE, WINDOW_SIZE + 1},
     ack_bits |-> {{}, 0..(WINDOW_SIZE - 2)},
     sizes |-> {HEADER_SIZE + 1}, arrive_at |-> {WINDOW_SIZE, WINDOW_SIZE + 1},
     dts |-> {},
     sends |-> WINDOW_SIZE + WindowExtra, recvs |-> 1, updates |-> 0,
     adds |-> 1, settle |-> 0]

\* every transmission of a reliable packet is lost
Retry ==
    [name |-> "retry", server |-> TRUE,
     dests |-> {1}, senders |-> {1},
     rel_seqs |-> {1}, unrel_seqs |-> {},
     seqs |-> {1}, acks |-> {0}, ack_bits |-> {{}},
     sizes |-> {HEADER_SIZE + 1}, arrive_at |-> {0, 1},
     dts |-> {100},
     sends |-> 1, recvs |-> 1, updates |-> MAX_RETRANSMIT_ATTEMPTS + RetryExtra,
     adds |-> 1, settle |-> 0]

\* a receiver: copies of a sender's packets, and datagrams too short to hold
\* a header, arrive in any order
Receiver ==
    [name |-> "receiver", server |-> TRUE,
     dests |-> {}, senders |-> {1},
     rel_seqs |-> {}, unrel_seqs |-> {},
     seqs |-> {1, 2, ACK_BITS, ACK_BITS + 1, ACK_BITS + 2}, acks |-> {0}, ack_bits |-> {{}},
     sizes |-> {HEADER_SIZE + 1, 0}, arrive_at |-> {0},
     dts |-> {},
     sends |-> 0, recvs |-> ReceiverRecvs, updates |-> 0,
     adds |-> 0, settle |-> 0]

\* a client and its server, and a stranger whose datagrams reach the client
Stranger ==
    [name |-> "stranger", server |-> FALSE,
     dests |-> {1}, senders |-> {1, 2},
     rel_seqs |-> {1}, unrel_seqs |-> {},
     seqs |-> {1, 2}, acks |-> {0}, ack_bits |-> {{}},
     sizes |-> {HEADER_SIZE + 1}, arrive_at |-> {0, 1},
     dts |-> {},
     sends |-> 1, recvs |-> StrangerRecvs, updates |-> 0,
     adds |-> 1, settle |-> 0]

Scenarios == {Acks, Sweep, Window, Overtake, Retry, Receiver, Stranger, Crowded}

\* a client whose main loop keeps sweeping: the application and the network
\* fall silent while enough sweeps remain for the inactivity timeout to pass
Live ==
    [name |-> "live", server |-> FALSE,
     dests |-> {1}, senders |-> {1},
     rel_seqs |-> 1..LiveSends, unrel_seqs |-> {},
     seqs |-> {1}, acks |-> 0..LiveSends, ack_bits |-> {{}},
     sizes |-> {HEADER_SIZE + 1}, arrive_at |-> 0..LiveSends,
     dts |-> {300},
     sends |-> LiveSends, recvs |-> 1,
     updates |-> (PEER_INACTIVITY_TIMEOUT \div 300) + 1 + LiveExtra,
     adds |-> 1, settle |-> (PEER_INACTIVITY_TIMEOUT \div 300) + 1]

\* the endpoint after network_init, at the start of a scenario
InitOf(scenarios) ==
    /\ cfg \in scenarios
    /\ net = network_init(cfg.server)
    /\ SERVER = <<>>
    /\ CLIENT = <<>>
    /\ app = [held |-> {}, copies |-> <<>>, acked |-> {}, arrived |-> <<>>,
              surfaced |-> <<>>, last |-> NoCall]
    /\ budget = [sends |-> cfg.sends, recvs |-> cfg.recvs, updates |-> cfg.updates,
                 adds |-> cfg.adds]
    /\ qs = <<>>
    /\ th = [recv |-> [pc |-> "top", buffer_idx |-> 0, call |-> NoCallLocals],
             main |-> [pc |-> "idle", id |-> 0, buffer_idx |-> 0, call |-> NoCallLocals]]

Init == InitOf(Scenarios)

Next ==
    \/ AddPeer
    \/ Send
    \/ Poll
    \/ Release
    \/ Update
    \/ Receive

Spec == Init /\ [][Next]_vars

\* the main loop: it hands every polled buffer back and it keeps calling
\* network_update
LiveInit == InitOf({Live})

LiveSpec == LiveInit /\ [][Next]_vars /\ WF_vars(Update) /\ WF_vars(Release)

----------------------------------------------------------------------------
(* The receive thread and the main thread on one endpoint, a step per load
   or store of a queue cursor *)

\* a client, its reliable sends, and datagrams coming in meanwhile
Race ==
    [name |-> "race", server |-> FALSE,
     dests |-> {1}, senders |-> {1},
     rel_seqs |-> 1..RaceSends, unrel_seqs |-> {},
     seqs |-> {1}, acks |-> {0}, ack_bits |-> {{}},
     sizes |-> {HEADER_SIZE + 1, 0}, arrive_at |-> 0..RaceSends,
     dts |-> {},
     sends |-> RaceSends, recvs |-> RaceRecvs, updates |-> 0,
     adds |-> 1, settle |-> 0]

RaceInit == InitOf({Race})

MainIdle == th.main.pc = "idle"

\* the condition of the loop of receive_thread_func, for a thread that
\* never looks at the flag
LoopCondition_blind(n) == TRUE

\* while (running): the receive thread loads the atomic flag
LoopCondition(n) == n.running

\* receive_thread_func: while (running) free_indices.try_pop(buffer_idx)
RecvPopCall ==
    /\ LoopCondition(net)
    /\ th.recv.pc = "top"
    /\ budget.recvs > 0
    /\ th' = [th EXCEPT !.recv.pc = "pop", !.recv.call = PopCall]
    /\ budget' = [budget EXCEPT !.recvs = @ - 1]
    /\ UNCHANGED <<CLIENT, SERVER, net, app, cfg, qs>>

\* a step of that try_pop; a failed pop sleeps and starts over
RecvPopStep ==
    /\ th.recv.pc = "pop"
    /\ LET o == PopStep(net.free_indices, th.recv.call, PACKET_POOL_SIZE)
       IN  /\ net' = [net EXCEPT !.free_indices = o.q]
           /\ th' = IF o.t.pc # "done" THEN [th EXCEPT !.recv.call = o.t]
                    ELSE IF o.t.ret
                    THEN [th EXCEPT !.recv.pc = "receive", !.recv.call = NoCallLocals,
                                    !.recv.buffer_idx = o.t.item]
                    ELSE [th EXCEPT !.recv.pc = "top", !.recv.call = NoCallLocals]
    /\ UNCHANGED <<CLIENT, SERVER, app, cfg, budget, qs>>

\* udp_receive fills packet_pool[buffer_idx]; the thread then calls
\* recv_queue.try_push(info), or free_indices.try_push(buffer_idx) for a
\* datagram too short to hold a header
RecvDatagram ==
    /\ th.recv.pc = "receive"
    /\ \E from \in cfg.senders, bytes \in cfg.sizes :
       \E h \in (IF bytes >= HEADER_SIZE THEN Headers(from)
                 ELSE {[sequence |-> 0, ack |-> 0, ack_bits |-> {}]}) :
        LET buffer_idx == th.recv.buffer_idx
            info == [buffer_index |-> buffer_idx, from |-> from, size |-> bytes]
        IN  IF bytes >= HEADER_SIZE
            THEN /\ net' = [net EXCEPT !.packet_pool[buffer_idx] =
                                Packet(h.sequence, h.ack, h.ack_bits, TRUE, 0)]
                 /\ th' = [th EXCEPT !.recv.pc = "push_recv",
                                     !.recv.call = PushCall(info)]
            ELSE /\ net' = net
                 /\ th' = [th EXCEPT !.recv.pc = "push_free",
                                     !.recv.call = PushCall(buffer_idx)]
    /\ UNCHANGED <<CLIENT, SERVER, app, cfg, budget, qs>>

\* a step of recv_queue.try_push(info); if it fails the buffer goes back
RecvPushInfoStep ==
    /\ th.recv.pc = "push_recv"
    /\ LET o == PushStep(net.recv_queue, th.recv.call, PACKET_POOL_SIZE)
       IN  /\ net' = [net EXCEPT !.recv_queue = o.q]
           /\ th' = IF o.t.pc # "done" THEN [th EXCEPT !.recv.call = o.t]
                    ELSE IF o.t.ret
                    THEN [th EXCEPT !.recv.pc = "top", !.recv.call = NoCallLocals]
                    ELSE [th EXCEPT !.recv.pc = "push_free",
                                    !.recv.call = PushCall(th.recv.buffer_idx)]
    /\ UNCHANGED <<CLIENT, SERVER, app, cfg, budget, qs>>

\* a step of the receive thread's free_indices.try_push(buffer_idx)
RecvPushFreeStep ==
    /\ th.recv.pc = "push_free"
    /\ LET o == PushStep(net.free_indices, th.recv.call, PACKET_POOL_SIZE)
       IN  /\ net' = [net EXCEPT !.free_indices = o.q]
           /\ th' = IF o.t.pc # "done" THEN [th EXCEPT !.recv.call = o.t]
                    ELSE [th EXCEPT !.recv.pc = "top", !.recv.call = NoCallLocals]
    /\ UNCHANGED <<CLIENT, SERVER, app, cfg, budget, qs>>

\* network_send(reliable) up to its free_indices.try_pop(buffer_idx)
MainSendCall ==
    /\ net.running
    /\ MainIdle
    /\ budget.sends > 0
    /\ \E id \in cfg.dests :
        /\ net.peers[id].present
        /\ th' = [th EXCEPT !.main.pc = "send_pop", !.main.id = id,
                            !.main.call = PopCall]
    /\ budget' = [budget EXCEPT !.sends = @ - 1]
    /\ UNCHANGED <<CLIENT, SERVER, net, app, cfg, qs>>

\* a step of that try_pop, and after it the window check: the packet is sent
\* and kept in the window, or the buffer is pushed back
MainSendPopStep ==
    /\ th.main.pc = "send_pop"
    /\ LET o == PopStep(net.free_indices, th.main.call, PACKET_POOL_SIZE)
           id == th.main.id
           popped == [Call(net) EXCEPT !.free_indices = o.q]
           next_seq == U16(net.peers[id].local_sequence + 1)
           diff == CALCULATE_SEQUENCE_OFFSET(next_seq, net.peers[id].window_start)
           idle == [th EXCEPT !.main.pc = "idle", !.main.call = NoCallLocals]
       IN  IF o.t.pc # "done"
           THEN /\ net' = [net EXCEPT !.free_indices = o.q]
                /\ th' = [th EXCEPT !.main.call = o.t]
                /\ app' = app
           ELSE IF ~o.t.ret
           THEN /\ net' = popped
                /\ th' = idle
                /\ app' = [app EXCEPT !.last = [op |-> "send", id |-> id, reliable |-> TRUE]]
           ELSE IF diff < 0 \/ diff >= WINDOW_SIZE
           THEN /\ net' = popped
                /\ th' = [th EXCEPT !.main.pc = "send_push",
                                    !.main.buffer_idx = o.t.item,
                                    !.main.call = PushCall(o.t.item)]
                /\ app' = app
           ELSE /\ net' = SendAccepted(popped, id, 0, 1, TRUE, o.t.item)
                /\ th' = idle
                /\ app' = [Ledger(app, net', <<>>) EXCEPT
                             !.last = [op |-> "send", id |-> id, reliable |-> TRUE]]
    /\ UNCHANGED <<CLIENT, SERVER, cfg, budget, qs>>

\* a step of the main thread's free_indices.try_push(buffer_idx): the push
\* back of network_send and the push of network_release_buffer
MainPushFreeStep ==
    /\ th.main.pc \in {"send_push", "release_push"}
    /\ LET o == PushStep(net.free_indices, th.main.call, PACKET_POOL_SIZE)
       IN  /\ net' = [net EXCEPT !.free_indices = o.q]
           /\ th' = IF o.t.pc # "done" THEN [th EXCEPT !.main.call = o.t]
                    ELSE [th EXCEPT !.main.pc = "idle", !.main.call = NoCallLocals]
    /\ UNCHANGED <<CLIENT, SERVER, app, cfg, budget, qs>>

\* network_release_buffer(buffer_index) up to its try_push
MainReleaseCall ==
    /\ net.running
    /\ MainIdle
    /\ \E idx \in app.held :
        /\ th' = [th EXCEPT !.main.pc = "release_push", !.main.buffer_idx = idx,
                            !.main.call = PushCall(idx)]
        /\ app' = [app EXCEPT !.held = @ \ {idx},
                              !.last = [op |-> "release", buffer_index |-> idx]]
    /\ UNCHANGED <<CLIENT, SERVER, net, cfg, budget, qs>>

RaceNext ==
    \/ MainIdle /\ AddPeer
    \/ MainSendCall
    \/ MainSendPopStep
    \/ MainPushFreeStep
    \/ MainIdle /\ Poll
    \/ MainReleaseCall
    \/ RecvPopCall
    \/ RecvPopStep
    \/ RecvDatagram
    \/ RecvPushInfoStep
    \/ RecvPushFreeStep

RaceSpec == RaceInit /\ [][RaceNext]_vars

----------------------------------------------------------------------------
(* A lock_free_queue between a producer thread and a consumer thread *)

QueueCap == 2 ^ QueueBits
QueueCalls == QueueCap + QueueExtra

\* one queue; the producer pushes 1, 2, 3, ...; a cell reads 0 until it is
\* written
QueueInit ==
    /\ qs = EmptyQueue(QueueCap, 0)
    /\ th = [producer |-> NoCallLocals, consumer |-> NoCallLocals]
    /\ app = [pushed |-> <<>>, popped |-> <<>>,
              push |-> [calls |-> 0, ok |-> TRUE, len |-> 0],
              pop |-> [calls |-> 0, ok |-> TRUE, len |-> 0]]
    /\ budget = [pushes |-> QueueCalls, pops |-> QueueCalls]
    /\ cfg = [name |-> "queue"]
    /\ net = <<>>
    /\ SERVER = <<>>
    /\ CLIENT = <<>>

\* the producer calls try_push
ProducerCall ==
    /\ th.producer.pc = "idle"
    /\ budget.pushes > 0
    /\ th' = [th EXCEPT !.producer = PushCall(app.push.calls + 1)]
    /\ app' = [app EXCEPT !.push.calls = @ + 1]
    /\ budget' = [budget EXCEPT !.pushes = @ - 1]
    /\ UNCHANGED <<CLIENT, SERVER, net, cfg, qs>>

\* the producer takes one step of try_push; on return the call's result and
\* the length of the ring at its deciding load or store are noted
ProducerStep ==
    /\ InCall(th.producer)
    /\ LET o == PushStep(qs, th.producer, QueueCap)
       IN  /\ qs' = o.q
           /\ IF o.t.pc = "done"
              THEN /\ th' = [th EXCEPT !.producer = NoCallLocals]
                   /\ app' = [app EXCEPT
                                !.pushed = IF o.t.ret THEN Append(@, o.t.item) ELSE @,
                                !.push.ok = o.t.ret,
                                !.push.len = QueueLen(qs, QueueCap)]
              ELSE /\ th' = [th EXCEPT !.producer = o.t]
                   /\ app' = app
    /\ UNCHANGED <<CLIENT, SERVER, net, cfg, budget>>

\* the consumer calls try_pop
ConsumerCall ==
    /\ th.consumer.pc = "idle"
    /\ budget.pops > 0
    /\ th' = [th EXCEPT !.consumer = PopCall]
    /\ app' = [app EXCEPT !.pop.calls = @ + 1]
    /\ budget' = [budget EXCEPT !.pops = @ - 1]
    /\ UNCHANGED <<CLIENT, SERVER, net, cfg, qs>>

\* the consumer takes one step of try_pop
ConsumerStep ==
    /\ InCall(th.consumer)
    /\ LET o == PopStep(qs, th.consumer, QueueCap)
       IN  /\ qs' = o.q
           /\ IF o.t.pc = "done"
              THEN /\ th' = [th EXCEPT !.consumer = NoCallLocals]
                   /\ app' = [app EXCEPT
                                !.popped = IF o.t.ret THEN Append(@, o.t.item) ELSE @,
                                !.pop.ok = o.t.ret,
                                !.pop.len = QueueLen(qs, QueueCap)]
              ELSE /\ th' = [th EXCEPT !.consumer = o.t]
                   /\ app' = app
    /\ UNCHANGED <<CLIENT, SERVER, net, cfg, budget>>

QueueNext ==
    \/ ProducerCall
    \/ ProducerStep
    \/ ConsumerCall
    \/ ConsumerStep

QueueSpec == QueueInit /\ [][QueueNext]_vars

----------------------------------------------------------------------------
(* Who holds the pool buffers *)

\* the window slots in use, as <<peer, slot>>
SlotsInUse(n) ==
    {x \in PeerIds \X (0..(WINDOW_SIZE - 1)) :
        n.peers[x[1]].present /\ x[2] \in n.peers[x[1]].window_mask}

SlotBuffer(n, x) == n.peers[x[1]].window[x[2]].buffer_idx

WindowBuffers(n) == {SlotBuffer(n, x) : x \in SlotsInUse(n)}

FreeItems(n) == QueueItems(n.free_indices, PACKET_POOL_SIZE)

FreeBuffers(n) ==
    LET items == FreeItems(n) IN {items[i] : i \in DOMAIN items}

RecvItems(n) == QueueItems(n.recv_queue, PACKET_POOL_SIZE)

RecvBuffers(n) ==
    LET items == RecvItems(n) IN {items[i].buffer_index : i \in DOMAIN items}

\* how many holdings there are: slots in use, queued descriptors, buffers in
\* the application's hands, entries of the free-index queue
Holdings(n, held) ==
    Cardinality(SlotsInUse(n)) + QueueLen(n.recv_queue, PACKET_POOL_SIZE)
    + Cardinality(held) + QueueLen(n.free_indices, PACKET_POOL_SIZE)

\* the buffers that are held by someone
HeldBuffers(n, held) == WindowBuffers(n) \cup RecvBuffers(n) \cup held \cup FreeBuffers(n)

\* no buffer index has two holders (or one holder twice)
SingleHolder(n, held) == Cardinality(HeldBuffers(n, held)) = Holdings(n, held)

\* the buffers in the hands of a thread that is between two queue calls
ThreadBuffers ==
    (IF th.recv.pc \in {"receive", "push_recv", "push_free"}
     THEN {<<"recv", th.recv.buffer_idx>>} ELSE {})
    \cup (IF th.main.pc \in {"send_push", "release_push"}
          THEN {<<"main", th.main.buffer_idx>>} ELSE {})

----------------------------------------------------------------------------
(* C3 *)

\* C3 (as claimed): in every reachable state the buffers held by the peers'
\* windows, the receive queue and the application, plus the free buffers of the
\* free-index queue, are exactly PACKET_POOL_SIZE = 256.  The code does not
\* keep this: network_init pushes 256 indexes into a ring that holds 255.
C3_AllBuffersAccounted == Holdings(net, app.held) = PACKET_POOL_SIZE

----------------------------------------------------------------------------
(* C6 *)

\* a window slot that was in use and stays in use keeps its buffer; one that
\* is no longer in use (acknowledged, or its peer removed) has its buffer in
\* the free-index queue, where it was not before
C6_SlotStep ==
    LET before == SlotsInUse(net)
        after == SlotsInUse(net')
    IN  /\ \A x \in before \cap after : SlotBuffer(net', x) = SlotBuffer(net, x)
        /\ (before \ after # {}) =>
            LET free_before == FreeBuffers(net)
                free_after == FreeBuffers(net')
            IN  \A x \in before \ after :
                    /\ SlotBuffer(net, x) \in free_after
                    /\ SlotBuffer(net, x) \notin free_before

\* C6: every buffer stored in a window slot is returned to the free-index
\* queue exactly once, on acknowledgement or on removal of the peer: while it
\* is stored nobody else holds it, when the slot is given up it enters the
\* free-index queue, and no index is ever in the queue twice.
C6_ReturnedExactlyOnce ==
    /\ [](SingleHolder(net, app.held))
    /\ [][C6_SlotStep]_vars

\* a poll has just released a slot that was in use
C6_Witness ==
    /\ app.last.op = "poll"
    /\ \E i \in DOMAIN app.last.log :
        LET e == app.last.log[i]
        IN  /\ e.known
            /\ net.peers[e.from].present
            /\ \E slot \in e.window_mask :
                /\ slot \notin net.peers[e.from].window_mask
                /\ MAP_SEQUENCE_TO_WINDOW_SLOT(e.header.ack) = slot

----------------------------------------------------------------------------
(* C7 *)

\* the reliable packets sent to a peer that no header of the peer has
\* acknowledged
Outstanding(a, id) == {x \in DOMAIN a.copies : x[1] = id /\ x \notin a.acked}

\* a reliable send with WINDOW_SIZE packets outstanding changes no peer and
\* sends nothing; no send changes a slot in use or the bytes stored for it
C7_SendStep ==
    (app'.last.op = "send" /\ net' # net) =>
        LET id == app'.last.id
        IN  /\ (app'.last.reliable /\ Cardinality(Outstanding(app, id)) = WINDOW_SIZE) =>
                /\ net'.socket_out = <<>>
                /\ net'.peers = net.peers
                /\ net'.packet_pool = net.packet_pool
            /\ \A slot \in net.peers[id].window_mask :
                /\ slot \in net'.peers[id].window_mask
                /\ net'.peers[id].window[slot] = net.peers[id].window[slot]
                /\ net'.packet_pool[net.peers[id].window[slot].buffer_idx]
                       = net.packet_pool[net.peers[id].window[slot].buffer_idx]

----------------------------------------------------------------------------
(* C8 *)

\* the descriptors of known (or accepted) peers the last poll examined
Examined == {i \in DOMAIN app.last.log : app.last.log[i].known \/ app.last.log[i].is_new}

InWindow(sequence, window_start) ==
    LET diff == CALCULATE_SEQUENCE_OFFSET(sequence, window_start)
    IN  diff >= 0 /\ diff < WINDOW_SIZE

\* window_start of a peer that stays in the table does not move backwards,
\* and it moves forward by no more than the distance to local_sequence
C8_WindowStartStep ==
    \A id \in PeerIds :
        (net.peers[id].present /\ net'.peers[id].present) =>
            /\ CALCULATE_SEQUENCE_OFFSET(net'.peers[id].window_start,
                                         net.peers[id].window_start) >= 0
            /\ U16(net'.peers[id].window_start - net.peers[id].window_start)
                 <= U16(net'.peers[id].local_sequence - net.peers[id].window_start)

C8_AckedInWindowFree ==
    app.last.op = "poll" =>
        \A i \in Examined :
            LET e == app.last.log[i]
            IN  net.peers[e.from].present =>
                    \A q \in AckedSeqs(e.header) :
                        InWindow(q, e.window_start) =>
                            MAP_SEQUENCE_TO_WINDOW_SLOT(q) \notin net.peers[e.from].window_mask

----------------------------------------------------------------------------
(* C9 *)

\* the step is a sweep
IsSweep == app'.last.op = "update" /\ budget'.updates = budget.updates - 1

Inactive(peer, now) == now - peer.last_seen_time > PEER_INACTIVITY_TIMEOUT

DueSlots(peer, now) ==
    {s \in peer.window_mask : now >= peer.window[s].next_retransmit_time}

Exhausted(peer, now) ==
    \E s \in DueSlots(peer, now) : peer.window[s].retry_count >= MAX_RETRANSMIT_ATTEMPTS

\* the datagrams a call sent to a peer
SentTo(n, id) == SelectSeq(n.socket_out, LAMBDA d : d.to = id)

\* a sweep retransmits every due packet of a peer it keeps, counts the retry
\* and reschedules it at now + 1.1 x RTT; it removes a peer that has a due
\* packet with retry_count at the limit
C9_SweepStep ==
    IsSweep =>
        \A id \in PeerIds :
            LET peer == net.peers[id]
                now == net'.current_time
                due == DueSlots(peer, now)
            IN  (peer.present /\ ~Inactive(peer, now)) =>
                    IF Exhausted(peer, now) THEN ~net'.peers[id].present
                    ELSE /\ net'.peers[id].present
                         /\ Len(SentTo(net', id)) = Cardinality(due)
                         /\ \A s \in due :
                              /\ \E i \in DOMAIN net'.socket_out :
                                    /\ net'.socket_out[i].to = id
                                    /\ net'.socket_out[i].packet
                                         = net.packet_pool[peer.window[s].buffer_idx]
                              /\ net'.peers[id].window[s].retry_count
                                    = peer.window[s].retry_count + 1
                              /\ net'.peers[id].window[s].next_retransmit_time
                                    = now + RetransmissionTimeout(peer.round_trip_time)
                         /\ \A s \in peer.window_mask \ due :
                              net'.peers[id].window[s] = peer.window[s]

\* C9 (as claimed): at most ten copies of a reliable packet are ever put on
\* the wire.
C9_AtMostTenCopies ==
    \A x \in DOMAIN app.copies : app.copies[x] <= MAX_RETRANSMIT_ATTEMPTS

\* C9 (amended): if every transmission of a reliable packet is lost, the
\* sender retransmits it in each sweep that finds now >= next_retransmit_time
\* (incrementing retry_count and rescheduling at now + 1.1 x RTT) and removes
\* the peer in the first such sweep after retry_count has reached 10: the
\* original and ten retransmissions are sent, so at most eleven copies of that
\* packet are ever put on the wire.
C9_RetryLimit ==
    /\ [](\A x \in DOMAIN app.copies : app.copies[x] <= MAX_RETRANSMIT_ATTEMPTS + 1)
    /\ [][C9_SweepStep]_vars

\* a sweep has removed a peer that was not inactive: its packet was due with
\* retry_count at the limit
C9_Witness ==
    /\ app.last.op = "update"
    /\ \E id \in PeerIds :
        /\ app.last.before[id].present
        /\ ~Inactive(app.last.before[id], net.current_time)
        /\ Exhausted(app.last.before[id], net.current_time)
        /\ ~net.peers[id].present

----------------------------------------------------------------------------
(* C10 *)

\* C10: in a retransmission sweep a peer from which nothing has been received
\* for more than PEER_INACTIVITY_TIMEOUT is removed: on_peer_removed (when
\* set) is invoked exactly once for it, every buffer of its reliable window is
\* back in the free-index queue, the peer is not in the table any more, and
\* nothing is sent to it in that sweep.
C10_InactiveStep ==
    IsSweep =>
        \A id \in PeerIds :
            LET peer == net.peers[id]
            IN  (peer.present /\ Inactive(peer, net'.current_time)) =>
                    /\ ~net'.peers[id].present
                    /\ net.on_peer_removed =>
                         Cardinality({i \in DOMAIN net'.cb_removed :
                                         net'.cb_removed[i] = id}) = 1
                    /\ \A s \in peer.window_mask :
                         /\ peer.window[s].buffer_idx \in FreeBuffers(net')
                         /\ peer.window[s].buffer_idx \notin FreeBuffers(net)
                    /\ SentTo(net', id) = <<>>

\* C10: every sweep removes each inactive peer as C10_InactiveStep states
C10_InactivityRemoval == [][C10_InactiveStep]_vars

\* a sweep has removed an inactive peer that had a packet due for
\* retransmission, and the callback ran
C10_Witness ==
    /\ app.last.op = "update"
    /\ \E id \in PeerIds :
        /\ app.last.before[id].present
        /\ Inactive(app.last.before[id], net.current_time)
        /\ DueSlots(app.last.before[id], net.current_time) # {}
        /\ ~net.peers[id].present
        /\ id \in {net.cb_removed[i] : i \in DOMAIN net.cb_removed}

----------------------------------------------------------------------------
(* C1 *)

\* C1 (as claimed): whatever copies of a peer's packets arrive, in whatever
\* order, network_poll surfaces each packet that it has examined exactly once
\* (the first copy is returned, every later copy is discarded).  The code
\* does not keep this: is_new_packet discards a packet that is 32 or more
\* behind the newest sequence although no copy of it was ever surfaced, and
\* its shift of remote_ack_bits by 32 is undefined.
C1_ExactlyOnce ==
    \A x \in DOMAIN app.arrived : BagCount(app.surfaced, x) = 1

----------------------------------------------------------------------------
(* C2 *)

\* reliable packet `sequence' is in the peer's window
Pending(id, sequence) ==
    LET peer == net.peers[id]
        slot == MAP_SEQUENCE_TO_WINDOW_SLOT(sequence)
    IN  /\ peer.present
        /\ slot \in peer.window_mask
        /\ net.packet_pool[peer.window[slot].buffer_idx].sequence = sequence

\* C2: when network_update keeps being called, every reliable packet placed
\* in a peer's window is eventually acknowledged (its slot is cleared) or its
\* peer is removed; no reliable packet stays pending forever.
C2_EventuallyResolved ==
    \A id \in Live.dests : \A sequence \in Live.rel_seqs :
        Pending(id, sequence) ~> ~Pending(id, sequence)

\* a sweep has removed a peer whose packet it had retransmitted before
C2_Witness ==
    /\ cfg.name = "live"
    /\ app.last.op = "update"
    /\ \E id \in PeerIds :
        /\ app.last.before[id].present
        /\ \E s \in app.last.before[id].window_mask :
              app.last.before[id].window[s].retry_count > 0
        /\ ~net.peers[id].present

----------------------------------------------------------------------------
(* C5 *)

\* what was pushed is what was popped followed by what the ring holds
C5_Fifo ==
    LET items == QueueItems(qs, QueueCap)
    IN  app.pushed = app.popped \o [i \in 1..Len(items) |-> items[i]]

\* the producer is never about to write the cell the consumer is about to read
C5_NoSharedCell ==
    (th.producer.pc = "store_value" /\ th.consumer.pc = "load_value")
        => th.producer.write # th.consumer.read

\* a failed try_push found the ring full (Capacity - 1 items), a failed try_pop
\* found it empty
C5_FailsOnlyWhen ==
    /\ ~app.push.ok => app.push.len = QueueCap - 1
    /\ ~app.pop.ok => app.pop.len = 0

\* C5: with one thread in try_push and another in try_pop, under every
\* interleaving of their loads and stores the popped items are the pushed
\* items in push order, none lost, duplicated or read before it was written;
\* try_push fails only when the ring is full and try_pop only when it is empty.
C5_SpscQueue == C5_Fifo /\ C5_NoSharedCell /\ C5_FailsOnlyWhen

\* a pop has failed on the empty ring, a push has failed on the full ring, and
\* the consumer is about to read a cell while the producer is inside try_push
C5_Witness ==
    /\ ~app.push.ok
    /\ ~app.pop.ok
    /\ Len(app.pushed) >= QueueCap - 1
    /\ th.consumer.pc = "load_value"
    /\ InCall(th.producer)

----------------------------------------------------------------------------
(* C4 *)

\* C4 (as claimed): under every interleaving of the receive thread and the
\* main thread each pool buffer index that network_init put into the free
\* queue has exactly one holder: a peer's window, the receive queue, the free
\* queue, the application, or a thread between two queue calls; never two
\* holders at once, and no index is lost.  The code does not keep this: both
\* threads pop free_indices (receive_thread_func and network_send) and both
\* push it, so the single-producer single-consumer ring has two consumers and
\* two producers.
C4_ExactlyOneHolder ==
    LET holdings == Holdings(net, app.held) + Cardinality(ThreadBuffers)
        held == HeldBuffers(net, app.held) \cup {x[2] : x \in ThreadBuffers}
    IN  /\ Cardinality(held) = holdings
        /\ holdings = PACKET_POOL_SIZE - 1

----------------------------------------------------------------------------
(* The game server (part_003, server_extended.hpp, game_types.hpp)

   Conventions of the server model
    - server time (SERVER.time, get_time, timestamps, shot_time) is counted
      in ticks of 1 / TICK_RATE seconds; the transport keeps its milliseconds;
    - a position is a point [x, z] of the ground plane with integer
      coordinates; every ray points along +x (look_yaw = look_pitch = 0);
    - distances along a ray are counted in thousandths;
    - a fixed_queue / fixed_array / ring_buffer is the sequence of its
      elements, oldest first, with the container's capacity checks. *)

MAX_PLAYERS == 10
MAX_SHOTS == 16
MAX_SHOOT_RANGE == 100
TICK_RATE == 60
SNAPSHOT_RATE == 20
HISTORY_SIZE == 64
BULLET_DAMAGE == 10
STARTING_HEALTH == 100
INPUT_BUFFER_SIZE == 12
\* NETWORK_UPDATE_INTERVAL (1.0f / 60.0f * 6.0f), in ticks
NETWORK_UPDATE_INTERVAL == 6
\* RESPAWN_TIME 1.5f, in ticks
RESPAWN_TIME == (3 * TICK_RATE) \div 2
\* SNAPSHOT_TIME (1.0f / SNAPSHOT_RATE), in ticks
SNAPSHOT_TIME == TICK_RATE \div SNAPSHOT_RATE
\* the dt handed to network_update, in the transport's milliseconds
NetworkUpdateDt == (NETWORK_UPDATE_INTERVAL * 1000) \div TICK_RATE

\* enum MessageType
MSG_SERVER_SNAPSHOT == 1
MSG_CLIENT_INPUT == 2
MSG_PLAYER_LEFT == 3
MSG_PLAYER_DIED == 4
MSG_CONNECT_REQUEST == 5
MSG_CONNECT_ACCEPT == 6

\* sizeof of the packed messages the server sends
SIZEOF_ConnectAccept == 6
SIZEOF_PlayerLeftEvent == 2
SIZEOF_PlayerKilledEvent == 3
SIZEOF_SnapshotMessage == 363

Slots == 0..(MAX_PLAYERS - 1)

Position(x, z) == [x |-> x, z |-> z]

\* Player p = {}; p.player_idx = -1
ZeroPlayer ==
    [player_idx |-> -1, last_processed_seq |-> 0, position |-> Position(0, 0),
     health |-> 0]

PlayerActive(p) == p.player_idx # -1
PlayerAlive(p) == p.health > 0

\* a zeroed ClientConnection
ZeroClient == [input_buffer |-> <<>>, last_processed |-> 0, peer_id |-> 0]

ClientActive(c) == c.peer_id # 0

\* fixed_queue<T, N>::push
fixed_queue_push(q, value, N) == IF Len(q) >= N THEN q ELSE Append(q, value)

\* ring_buffer<T, N>::push: a full ring forgets its oldest element
ring_buffer_push(r, item, N) ==
    IF Len(r) < N THEN Append(r, item) ELSE Append(Tail(r), item)

\* messages (game_types.hpp)
make_connect_accept(server_time, player_index) ==
    [type |-> MSG_CONNECT_ACCEPT, server_time |-> server_time,
     player_index |-> player_index]

make_kill_event(killer_idx, killed_idx) ==
    [type |-> MSG_PLAYER_DIED, killer_idx |-> killer_idx, killed_idx |-> killed_idx]

make_leave_event(player_idx) == [type |-> MSG_PLAYER_LEFT, player_idx |-> player_idx]

\* what a client puts into an InputMessage; move is the point the input
\* steers the player to
make_input_message(seq, move, shoot, shot_time) ==
    [type |-> MSG_CLIENT_INPUT, sequence_num |-> seq, move |-> move,
     shoot |-> shoot, shot_time |-> shot_time]

ConnectRequest == [type |-> MSG_CONNECT_REQUEST]

RECURSIVE FindIndexLoop(_, _, _)
FindIndexLoop(clients, peer_id, i) ==
    IF i >= MAX_PLAYERS THEN -1
    ELSE IF clients[i].peer_id = peer_id THEN i
    ELSE FindIndexLoop(clients, peer_id, i + 1)

find_player_index_for_peer(s, peer_id) == FindIndexLoop(s.clients, peer_id, 0)

\* get_time(): the steady clock since start_time; the loop sleeps to keep one
\* iteration per tick, so the wall clock reads the tick counter
get_time(s) == s.time

----------------------------------------------------------------------------
(* part_004, server_extended.hpp: rays and shots *)

\* sqrt(radius * radius - dist_sq) for a sphere of PLAYER_RADIUS whose centre
\* lies PLAYER_EYE_HEIGHT below the ray: sqrt(1 - 0.25), in thousandths
HALF_CHORD == 866

\* raycast_sphere against a player's sphere: [hit, distance].  The centre is
\* to_sphere = position - origin away; it is within the radius of the ray
\* only when it is not displaced sideways (the displacements are whole units)
raycast_sphere(ray, position) ==
    LET proj == position.x - ray.origin.x
        sideways == position.z - ray.origin.z
        t == 1000 * proj - HALF_CHORD
    IN  IF sideways # 0 THEN [hit |-> FALSE, distance |-> 0]
        ELSE IF t < 0 \/ t > ray.length THEN [hit |-> FALSE, distance |-> 0]
        ELSE [hit |-> TRUE, distance |-> t]

\* raycast_obb against an axis-aligned box: [hit, distance], the distance to
\* the face the ray enters through
raycast_obb(ray, box) ==
    LET proj == box.center.x - ray.origin.x
        sideways == box.center.z - ray.origin.z
        t == 1000 * proj - box.half_extent
    IN  IF sideways # 0 THEN [hit |-> FALSE, distance |-> 0]
        ELSE IF t < 0 \/ t > ray.length THEN [hit |-> FALSE, distance |-> 0]
        ELSE [hit |-> TRUE, distance |-> t]

\* create_shot: the ray starts at the shooter's eye
create_shot(shooter) ==
    [shooter_idx |-> shooter.player_idx,
     ray |-> [origin |-> shooter.position, length |-> 1000 * MAX_SHOOT_RANGE]]

\* the loop of trace_shot over the obstacles: the shot with its ray cut at
\* the closest obstacle hit
RECURSIVE TraceObstacles(_, _, _)
TraceObstacles(shot, obstacles, closest_dist) ==
    IF obstacles = <<>> THEN shot
    ELSE LET hit == raycast_obb(shot.ray, Head(obstacles))
         IN  IF hit.hit /\ hit.distance < closest_dist
             THEN TraceObstacles([shot EXCEPT !.ray.length = hit.distance],
                                 Tail(obstacles), hit.distance)
             ELSE TraceObstacles(shot, Tail(obstacles), closest_dist)

\* the loop of trace_shot over the players, from index i on: it returns at
\* the first sphere the ray enters closer than closest_dist
RECURSIVE TracePlayers(_, _, _)
TracePlayers(shot, players, i) ==
    IF i >= MAX_PLAYERS THEN [hit |-> FALSE, hit_player_idx |-> -1, shot |-> shot]
    ELSE LET player == players[i]
             hit == raycast_sphere(shot.ray, player.position)
         IN  IF player.player_idx = shot.shooter_idx
             THEN TracePlayers(shot, players, i + 1)
             ELSE IF hit.hit /\ hit.distance < shot.ray.length
             THEN [hit |-> TRUE, hit_player_idx |-> player.player_idx,
                   shot |-> [shot EXCEPT !.ray.length = hit.distance]]
             ELSE TracePlayers(shot, players, i + 1)

\* trace_shot: [hit, hit_player_idx, shot]
trace_shot(shot, map, players) ==
    TracePlayers(TraceObstacles(shot, map, shot.ray.length), players, 0)

----------------------------------------------------------------------------
(* part_003: history, shots and respawns *)

\* the loop of history_get_frame_at_time run from the oldest frame up
RECURSIVE HistoryLoop_oldest(_, _, _)
HistoryLoop_oldest(history, i, time) ==
    IF i <= 0 THEN [ok |-> FALSE, frame |-> <<>>]
    ELSE LET k == Len(history) - i + 1
         IN  IF history[k].timestamp <= time THEN [ok |-> TRUE, frame |-> history[k]]
             ELSE HistoryLoop_oldest(history, i - 1, time)

\* the loop of history_get_frame_at_time, from the newest frame down
RECURSIVE HistoryLoop(_, _, _)
HistoryLoop(history, i, time) ==
    IF i <= 0 THEN [ok |-> FALSE, frame |-> <<>>]
    ELSE IF history[i].timestamp <= time THEN [ok |-> TRUE, frame |-> history[i]]
    ELSE HistoryLoop(history, i - 1, time)

history_get_frame_at_time(s, time) == HistoryLoop(s.history, Len(s.history), time)

\* network_send_reliable of one event to every active client, from slot i on
RECURSIVE SendToActive(_, _, _, _)
SendToActive(s, payload, size, i) ==
    IF i >= MAX_PLAYERS THEN s
    ELSE IF ClientActive(s.clients[i])
    THEN SendToActive(
             [s EXCEPT !.network = network_send(@, s.clients[i].peer_id, payload, size, TRUE)],
             payload, size, i + 1)
    ELSE SendToActive(s, payload, size, i + 1)

Max(a, b) == IF a >= b THEN a ELSE b

\* what a shot did, for the record: the frame it took the shooter from, the
\* players it was traced against, and what became of the player it hit
ShotEvent(s, shooter_idx, shot_time, found, historical, hit_player, health) ==
    [ev |-> "shot", shooter_idx |-> shooter_idx, shot_time |-> shot_time,
     found |-> found.ok, historical_timestamp |-> historical.timestamp,
     historical_players |-> historical.players,
     origin |-> create_shot(historical.players[shooter_idx]).ray.origin,
     live_players |-> s.frame.players,
     hit_player |-> hit_player,
     health_before |-> IF hit_player = -1 THEN 0 ELSE s.frame.players[hit_player].health,
     health_after |-> IF hit_player = -1 THEN 0 ELSE health,
     queue_before |-> s.dead_players,
     time |-> s.time]

perform_lag_compensated_shot(s, shooter_idx, shot_time) ==
    LET found == history_get_frame_at_time(s, shot_time)
        historical == IF found.ok THEN found.frame ELSE s.frame
        historical_shooter == historical.players[shooter_idx]
        traced == trace_shot(create_shot(historical_shooter), s.map, s.frame.players)
        hit_player == traced.hit_player_idx
        health == IF hit_player = -1 THEN 0
                  ELSE Max(s.frame.players[hit_player].health - BULLET_DAMAGE, 0)
        shot_made == [s EXCEPT
            !.new_shots = IF Len(@) >= MAX_SHOTS THEN @ ELSE Append(@, traced.shot),
            !.events = Append(@, ShotEvent(s, shooter_idx, shot_time, found,
                                           historical, hit_player, health))]
        damaged == [shot_made EXCEPT !.frame.players[hit_player].health = health]
        respawn == [player_index |-> hit_player, respawn_time |-> s.time + RESPAWN_TIME]
        queued == [damaged EXCEPT
                     !.dead_players = fixed_queue_push(@, respawn, MAX_PLAYERS)]
    IN  IF ~PlayerActive(historical_shooter) THEN s
        ELSE IF hit_player = -1 THEN shot_made
        ELSE IF health > 0 THEN damaged
        ELSE SendToActive(queued, make_kill_event(shooter_idx, hit_player),
                          SIZEOF_PlayerKilledEvent, 0)

\* update_respawns without the test of respawn_time
RECURSIVE update_respawns_early(_, _, _)
update_respawns_early(s, current_time, spawn) ==
    IF s.dead_players = <<>> THEN s
    ELSE LET respawn == Head(s.dead_players)
         IN  update_respawns_early(
                    [s EXCEPT
                       !.frame.players[respawn.player_index].position =
                           spawn[respawn.player_index],
                       !.frame.players[respawn.player_index].health = STARTING_HEALTH,
                       !.dead_players = Tail(@),
                       !.events = Append(@, [ev |-> "respawn",
                                             player_index |-> respawn.player_index,
                                             was |-> s.frame.players[respawn.player_index]])],
                    current_time, spawn)

\* update_respawns; spawn[i] is what get_spawn_point returns for player i
RECURSIVE update_respawns(_, _, _)
update_respawns(s, current_time, spawn) ==
    IF s.dead_players = <<>> THEN s
    ELSE LET respawn == Head(s.dead_players)
         IN  IF respawn.respawn_time > current_time THEN s
             ELSE update_respawns(
                    [s EXCEPT
                       !.frame.players[respawn.player_index].position =
                           spawn[respawn.player_index],
                       !.frame.players[respawn.player_index].health = STARTING_HEALTH,
                       !.dead_players = Tail(@),
                       !.events = Append(@, [ev |-> "respawn",
                                             player_index |-> respawn.player_index,
                                             was |-> s.frame.players[respawn.player_index]])],
                    current_time, spawn)

----------------------------------------------------------------------------
(* part_003: the simulation tick *)

\* apply_player_input and apply_player_physics: the input steers the player
\* to the point input.move
apply_player_input(entity, input) == [entity EXCEPT !.position = input.move]

\* DrainInputs_lt with < in place of <= in the test of the sequence number
RECURSIVE DrainInputs_lt(_, _)
DrainInputs_lt(s, player_idx) ==
    LET client == s.clients[player_idx]
        input == Head(client.input_buffer)
        popped == [s EXCEPT !.clients[player_idx].input_buffer = Tail(@)]
        marked == [popped EXCEPT
                     !.clients[player_idx].last_processed = input.sequence_num,
                     !.events = Append(@, [ev |-> "input", player_idx |-> player_idx,
                                           sequence_num |-> input.sequence_num])]
        shot == IF input.shoot
                THEN perform_lag_compensated_shot(marked, player_idx, input.shot_time)
                ELSE marked
        applied == [shot EXCEPT !.frame.players[player_idx] = apply_player_input(@, input)]
        stale == [popped EXCEPT
                    !.events = Append(@, [ev |-> "stale", player_idx |-> player_idx,
                                          sequence_num |-> input.sequence_num])]
    IN  IF client.input_buffer = <<>> THEN s
        ELSE IF input.sequence_num < client.last_processed
        THEN DrainInputs_lt(stale, player_idx)
        ELSE DrainInputs_lt(applied, player_idx)

\* the while loop of tick over one client's input buffer
RECURSIVE DrainInputs(_, _)
DrainInputs(s, player_idx) ==
    LET client == s.clients[player_idx]
        input == Head(client.input_buffer)
        popped == [s EXCEPT !.clients[player_idx].input_buffer = Tail(@)]
        marked == [popped EXCEPT
                     !.clients[player_idx].last_processed = input.sequence_num,
                     !.events = Append(@, [ev |-> "input", player_idx |-> player_idx,
                                           sequence_num |-> input.sequence_num])]
        shot == IF input.shoot
                THEN perform_lag_compensated_shot(marked, player_idx, input.shot_time)
                ELSE marked
        applied == [shot EXCEPT !.frame.players[player_idx] = apply_player_input(@, input)]
        stale == [popped EXCEPT
                    !.events = Append(@, [ev |-> "stale", player_idx |-> player_idx,
                                          sequence_num |-> input.sequence_num])]
    IN  IF client.input_buffer = <<>> THEN s
        ELSE IF input.sequence_num <= client.last_processed
        THEN DrainInputs(stale, player_idx)
        ELSE DrainInputs(applied, player_idx)

\* the for loop of tick over the players, from player_idx on
RECURSIVE TickLoop(_, _)
TickLoop(s, player_idx) ==
    IF player_idx >= MAX_PLAYERS THEN s
    ELSE IF ~ClientActive(s.clients[player_idx]) THEN TickLoop(s, player_idx + 1)
    ELSE IF ~PlayerAlive(s.frame.players[player_idx]) THEN TickLoop(s, player_idx + 1)
    ELSE TickLoop(DrainInputs(s, player_idx), player_idx + 1)

tick(s) ==
    LET done == TickLoop(s, 0)
        stamped == [done EXCEPT !.frame.timestamp = get_time(done)]
    IN  [stamped EXCEPT !.history = ring_buffer_push(@, stamped.frame, HISTORY_SIZE)]

----------------------------------------------------------------------------
(* part_003: clients coming and going *)

\* remove_client without the loop that sends the event
remove_client_quiet(s, peer_id) ==
    LET player_idx == find_player_index_for_peer(s, peer_id)
        cleared == [s EXCEPT
                      !.clients[player_idx] = ZeroClient,
                      !.frame.players[player_idx].player_idx = -1,
                      !.frame.players[player_idx].health = 0,
                      !.events = Append(@, [ev |-> "left", peer_id |-> peer_id,
                                            player_idx |-> player_idx])]
    IN  IF player_idx < 0 THEN s
        ELSE cleared

remove_client(s, peer_id) ==
    LET player_idx == find_player_index_for_peer(s, peer_id)
        cleared == [s EXCEPT
                      !.clients[player_idx] = ZeroClient,
                      !.frame.players[player_idx].player_idx = -1,
                      !.frame.players[player_idx].health = 0,
                      !.events = Append(@, [ev |-> "left", peer_id |-> peer_id,
                                            player_idx |-> player_idx])]
    IN  IF player_idx < 0 THEN s
        ELSE SendToActive(cleared, make_leave_event(player_idx),
                          SIZEOF_PlayerLeftEvent, 0)

\* handle_connect_request without the early return for a peer that has a slot
handle_connect_request_again(s, peer_id, spawn) ==
    LET player_idx == find_player_index_for_peer(s, 0)
        entity == [ZeroPlayer EXCEPT !.player_idx = player_idx,
                                     !.position = spawn[player_idx],
                                     !.health = STARTING_HEALTH]
        joined == [s EXCEPT
                     !.clients[player_idx].peer_id = peer_id,
                     !.clients[player_idx].last_processed = 0,
                     !.frame.players[player_idx] = entity,
                     !.events = Append(@, [ev |-> "connect", peer_id |-> peer_id,
                                           player_idx |-> player_idx,
                                           server_time |-> get_time(s)])]
        msg == make_connect_accept(get_time(s), player_idx)
    IN  IF player_idx < 0 THEN s
        ELSE [joined EXCEPT
                !.network = network_send(@, peer_id, msg, SIZEOF_ConnectAccept, TRUE)]

\* spawn[i] is what get_spawn_point returns for player i
handle_connect_request(s, peer_id, spawn) ==
    LET player_idx == find_player_index_for_peer(s, 0)
        entity == [ZeroPlayer EXCEPT !.player_idx = player_idx,
                                     !.position = spawn[player_idx],
                                     !.health = STARTING_HEALTH]
        joined == [s EXCEPT
                     !.clients[player_idx].peer_id = peer_id,
                     !.clients[player_idx].last_processed = 0,
                     !.frame.players[player_idx] = entity,
                     !.events = Append(@, [ev |-> "connect", peer_id |-> peer_id,
                                           player_idx |-> player_idx,
                                           server_time |-> get_time(s)])]
        msg == make_connect_accept(get_time(s), player_idx)
    IN  IF find_player_index_for_peer(s, peer_id) >= 0 THEN s
        ELSE IF player_idx < 0 THEN s
        ELSE [joined EXCEPT
                !.network = network_send(@, peer_id, msg, SIZEOF_ConnectAccept, TRUE)]

handle_client_input(s, player_idx, input) ==
    IF ~ClientActive(s.clients[player_idx]) THEN s
    ELSE [s EXCEPT !.clients[player_idx].input_buffer =
                       fixed_queue_push(@, input, INPUT_BUFFER_SIZE)]

\* the switch of server_process_packets on the first byte of the payload
DispatchPacket(s, polled, spawn) ==
    LET player_idx == find_player_index_for_peer(s, polled.from)
        seen == [s EXCEPT !.events = Append(@, [ev |-> "polled", from |-> polled.from,
                                                size |-> polled.size,
                                                type |-> polled.payload.type,
                                                payload |-> polled.payload])]
    IN  IF polled.payload.type = MSG_CONNECT_REQUEST
        THEN handle_connect_request(seen, polled.from, spawn)
        ELSE IF player_idx >= 0 THEN handle_client_input(seen, player_idx, polled.payload)
        ELSE seen

\* server_process_packets: the set of server states it can end in (one,
\* unless network_poll runs into the undefined shift)
RECURSIVE server_process_packets(_, _)
server_process_packets(s, spawn) ==
    UNION {IF ~o.ok THEN {[s EXCEPT !.network = o.n]}
           ELSE server_process_packets(
                  [DispatchPacket([s EXCEPT !.network = o.n], o.polled, spawn)
                     EXCEPT !.network = network_release_buffer(@, o.polled.buffer_index)],
                  spawn)
           : o \in network_poll(s.network)}

----------------------------------------------------------------------------
(* part_003: snapshots *)

Clamp(v, lo, hi) == IF v < lo THEN lo ELSE IF v > hi THEN hi ELSE v

\* quantize(Player &): positions travel as int16_t in 1/500 units
quantize(e) ==
    [player_idx |-> e.player_idx,
     last_processed_seq |-> e.last_processed_seq,
     pos_x |-> Clamp(e.position.x * 500, -32768, 32767),
     pos_z |-> Clamp(e.position.z * 500, -32768, 32767),
     health |-> e.health]

\* the first loop of broadcast_snapshot, from slot i on: [frame, players]
RECURSIVE SnapshotPlayers(_, _, _, _)
SnapshotPlayers(frame, clients, players, i) ==
    IF i >= MAX_PLAYERS THEN [frame |-> frame, players |-> players]
    ELSE IF ~PlayerActive(frame.players[i])
    THEN SnapshotPlayers(frame, clients, players, i + 1)
    ELSE LET marked == [frame EXCEPT
                          !.players[i].last_processed_seq = clients[i].last_processed]
         IN  SnapshotPlayers(marked, clients,
                             Append(players, quantize(marked.players[i])), i + 1)

\* the last loop of broadcast_snapshot, from slot i on
RECURSIVE SnapshotSend(_, _, _)
SnapshotSend(s, msg, i) ==
    IF i >= MAX_PLAYERS THEN s
    ELSE IF s.clients[i].peer_id # 0
    THEN SnapshotSend(
             [s EXCEPT !.network = network_send(@, s.clients[i].peer_id, msg,
                                                SIZEOF_SnapshotMessage, FALSE)],
             msg, i + 1)
    ELSE SnapshotSend(s, msg, i + 1)

broadcast_snapshot(s) ==
    LET built == SnapshotPlayers(s.frame, s.clients, <<>>, 0)
        msg == [type |-> MSG_SERVER_SNAPSHOT,
                server_time |-> get_time(s),
                players |-> built.players,
                shot_count |-> Len(s.new_shots)]
        sent == SnapshotSend([s EXCEPT !.frame = built.frame], msg, 0)
    IN  [sent EXCEPT !.new_shots = <<>>]

----------------------------------------------------------------------------
(* part_003: the transport's sweep with remove_client as on_peer_removed *)

\* network_update's loop over the peer table: network_remove_peer ends with
\* the callback, and both callers leave the entry right after it
RECURSIVE ServerSweepLoop(_, _)
ServerSweepLoop(s, ids) ==
    IF ids = {} THEN s
    ELSE LET id == CHOOSE i \in ids : \A j \in ids : i <= j
             stepped == SweepLoop(s.network, {id})
             removed == s.network.peers[id].present /\ ~stepped.peers[id].present
             swept == [s EXCEPT !.network = stepped]
         IN  IF removed THEN ServerSweepLoop(remove_client(swept, id), ids \ {id})
             ELSE IF swept = s THEN ServerSweepLoop(s, ids \ {id})
             ELSE ServerSweepLoop(swept, ids \ {id})

server_network_update(s, dt) ==
    ServerSweepLoop([s EXCEPT !.network.current_time = @ + dt], PeerIds)

\* run_server up to server_loop
run_server(map) ==
    [network |-> network_init(TRUE),
     map |-> map,
     new_shots |-> <<>>,
     time |-> 0,
     history |-> <<>>,
     frame |-> [timestamp |-> 0, players |-> [i \in Slots |-> ZeroPlayer]],
     dead_players |-> <<>>,
     clients |-> [i \in Slots |-> ZeroClient],
     events |-> <<>>]

----------------------------------------------------------------------------
(* The server's runs: server_loop on the main thread, the receive thread and
   the clients.  A scenario fixes the map, the points get_spawn_point can
   return, and the datagrams the clients send: a script of datagrams, each
   with the loop iteration it arrives in, and the senders and payloads of the
   datagrams that arrive at any time. *)

SIZEOF_ConnectRequest == 33
SIZEOF_InputMessage == 30

\* a handler starts with empty records of what it did
Begin(s) ==
    [s EXCEPT !.events = <<>>, !.network.socket_out = <<>>, !.network.cb_removed = <<>>]

\* the header a client writes: its next sequence number, and either no news
\* or an acknowledgement of everything the server has sent to it
ClientHeader(s, sent, from, acks) ==
    LET peer == s.network.peers[from]
        ack == IF acks /\ peer.present THEN peer.local_sequence ELSE 0
    IN  [sequence |-> sent[from] + 1, ack |-> ack,
         ack_bits |-> {k \in 0..(ACK_BITS - 1) : ack - (k + 1) >= 1}]

\* the datagram udp_receive hands to the receive thread
ClientDatagram(s, sent, from, payload, acks) ==
    LET h == ClientHeader(s, sent, from, acks)
        reliable == payload.type = MSG_CONNECT_REQUEST
    IN  [from |-> from,
         bytes |-> HEADER_SIZE + (IF reliable THEN SIZEOF_ConnectRequest
                                               ELSE SIZEOF_InputMessage),
         packet |-> Packet(h.sequence, h.ack, h.ack_bits, reliable, payload)]

\* a scripted datagram that was cut short carries only the first d.cut bytes
\* of its payload
Truncated(dgram, d) ==
    IF "cut" \in DOMAIN d THEN [dgram EXCEPT !.bytes = HEADER_SIZE + d.cut] ELSE dgram

\* an input whose sequence_num is 0 gets the client's next number
Numbered(payload, number) ==
    IF payload.type = MSG_CLIENT_INPUT /\ payload.sequence_num = 0
    THEN [payload EXCEPT !.sequence_num = number]
    ELSE payload

\* the datagrams that can arrive before iteration SERVER.time + 1 polls
ScriptDue ==
    app.next <= Len(cfg.script) /\ cfg.script[app.next].at <= SERVER.time + 1

\* what the main thread observes of the players: when each dead player of a
\* connected peer was killed (-1: not dead)
RECURSIVE Observe(_, _)
Observe(killed_at, events) ==
    IF events = <<>> THEN killed_at
    ELSE LET e == Head(events)
             next ==
                IF e.ev = "shot" /\ e.hit_player # -1
                   /\ e.health_before > 0 /\ e.health_after = 0
                THEN [killed_at EXCEPT ![e.hit_player] = e.time]
                ELSE IF e.ev = "respawn"
                THEN [killed_at EXCEPT ![e.player_index] = -1]
                ELSE IF e.ev = "left" \/ e.ev = "connect"
                THEN [killed_at EXCEPT ![e.player_idx] = -1]
                ELSE killed_at
         IN  Observe(next, Tail(events))

\* the receive thread takes one datagram off the socket; the main thread
\* sees it at its next server_process_packets
ServerReceive ==
    /\ th.pc = "process_packets"
    /\ SERVER.time < cfg.iters
    /\ \/ /\ ScriptDue
          /\ LET d == cfg.script[app.next]
             IN  /\ SERVER' = [SERVER EXCEPT !.network = receive_thread_func(@,
                                  Truncated(ClientDatagram(SERVER, app.sent, d.from,
                                                           d.payload, d.acks), d))]
                 /\ app' = [app EXCEPT !.next = @ + 1, !.sent[d.from] = @ + 1]
          /\ UNCHANGED budget
       \/ /\ ~ScriptDue
          /\ budget.recvs > 0
          /\ \E from \in cfg.senders : \E payload \in cfg.payloads[from] :
               /\ SERVER' = [SERVER EXCEPT !.network = receive_thread_func(@,
                                ClientDatagram(SERVER, app.sent, from,
                                               Numbered(payload, app.sent[from] + 1),
                                               from \in cfg.acking))]
               /\ app' = [app EXCEPT !.sent[from] = @ + 1]
          /\ budget' = [budget EXCEPT !.recvs = @ - 1]
    /\ UNCHANGED <<CLIENT, net, cfg, qs, th>>

\* server_loop: SERVER.time += TICK_TIME; server_process_packets()
ServerProcessPackets ==
    /\ th.pc = "process_packets"
    /\ SERVER.time < cfg.iters
    /\ ~ScriptDue
    /\ \E spawn \in cfg.spawns :
       \E s \in server_process_packets([Begin(SERVER) EXCEPT !.time = @ + 1], spawn) :
          /\ SERVER' = s
          /\ app' = [app EXCEPT !.killed_at = Observe(@, s.events)]
    /\ th' = [th EXCEPT !.pc = "tick"]
    /\ UNCHANGED <<CLIENT, net, cfg, budget, qs>>

\* server_loop: tick(TICK_TIME)
ServerTick ==
    /\ th.pc = "tick"
    /\ SERVER' = tick(Begin(SERVER))
    /\ app' = [app EXCEPT !.killed_at = Observe(@, SERVER'.events)]
    /\ th' = [th EXCEPT !.pc = "snapshot"]
    /\ UNCHANGED <<CLIENT, net, cfg, budget, qs>>

\* server_loop: broadcast_snapshot() once snapshot_accumulator >= SNAPSHOT_TIME
ServerSnapshot ==
    /\ th.pc = "snapshot"
    /\ LET snapshot_accumulator == th.snapshot_accumulator + 1
       IN  IF snapshot_accumulator >= SNAPSHOT_TIME
           THEN /\ SERVER' = broadcast_snapshot(Begin(SERVER))
                /\ th' = [th EXCEPT !.pc = "network_update", !.snapshot_accumulator = 0]
           ELSE /\ SERVER' = Begin(SERVER)
                /\ th' = [th EXCEPT !.pc = "network_update",
                                    !.snapshot_accumulator = snapshot_accumulator]
    /\ UNCHANGED <<CLIENT, net, app, cfg, budget, qs>>

\* server_loop: network_update() once update_accumulator >= NETWORK_UPDATE_INTERVAL
ServerNetworkUpdate ==
    /\ th.pc = "network_update"
    /\ LET update_accumulator == th.update_accumulator + 1
       IN  IF update_accumulator >= NETWORK_UPDATE_INTERVAL
           THEN /\ SERVER' = server_network_update(Begin(SERVER),
                                 (update_accumulator * 1000) \div TICK_RATE)
                /\ th' = [th EXCEPT !.pc = "respawns", !.update_accumulator = 0]
           ELSE /\ SERVER' = Begin(SERVER)
                /\ th' = [th EXCEPT !.pc = "respawns",
                                    !.update_accumulator = update_accumulator]
    /\ app' = [app EXCEPT !.killed_at = Observe(@, SERVER'.events)]
    /\ UNCHANGED <<CLIENT, net, cfg, budget, qs>>

\* server_loop: update_respawns(SERVER.time); RESPAWN_INTERVAL is less than a
\* tick, so every iteration runs it
ServerUpdateRespawns ==
    /\ th.pc = "respawns"
    /\ \E spawn \in cfg.spawns :
          SERVER' = update_respawns(Begin(SERVER), SERVER.time, spawn)
    /\ app' = [app EXCEPT !.killed_at = Observe(@, SERVER'.events)]
    /\ th' = [th EXCEPT !.pc = "process_packets"]
    /\ UNCHANGED <<CLIENT, net, cfg, budget, qs>>

ServerInitOf(scenarios) ==
    /\ cfg \in scenarios
    /\ SERVER = run_server(cfg.map)
    /\ CLIENT = <<>>
    /\ th = [pc |-> "process_packets", snapshot_accumulator |-> 0,
             update_accumulator |-> 0]
    /\ app = [sent |-> [p \in PeerIds |-> 0], next |-> 1,
              killed_at |-> [i \in Slots |-> -1]]
    /\ budget = [recvs |-> cfg.recvs]
    /\ net = <<>>
    /\ qs = <<>>

ServerNext ==
    \/ ServerReceive
    \/ ServerProcessPackets
    \/ ServerTick
    \/ ServerSnapshot
    \/ ServerNetworkUpdate
    \/ ServerUpdateRespawns

----------------------------------------------------------------------------
(* Scenarios of the server *)

\* get_spawn_point returns points[i + 1] for player i, a far corner otherwise
SpawnAt(points) ==
    [i \in Slots |-> IF i + 1 <= Len(points) THEN points[i + 1] ELSE Position(-1, -2 - i)]

\* a scripted datagram
At(iteration, from, payload, acks) ==
    [at |-> iteration, from |-> from, payload |-> payload, acks |-> acks]

\* a client shooting once per input, with sequence numbers lo..hi
Burst(iteration, from, lo, hi, shot_time) ==
    [i \in 1..(hi - lo + 1) |->
        At(iteration, from,
           make_input_message(lo + i - 1, Position(0, 0), TRUE, shot_time), FALSE)]

\* clients 1 and 2 (and whoever else there is) send connect requests and
\* inputs in any order, until the first snapshot goes out
Join ==
    [map |-> <<>>,
     spawns |-> {SpawnAt(<<Position(0, 0), Position(2, 0)>>),
                 SpawnAt(<<Position(0, 2), Position(0, 0)>>)},
     script |-> <<>>,
     senders |-> {1, 2},
     payloads |-> [from \in {1, 2} |->
                     {ConnectRequest, make_input_message(1, Position(1, 0), FALSE, 0)}],
     acking |-> {},
     recvs |-> JoinRecvs,
     iters |-> SNAPSHOT_TIME]

\* a connected client whose inputs arrive duplicated and out of order
Inputs ==
    [map |-> <<>>,
     spawns |-> {SpawnAt(<<Position(0, 0)>>)},
     script |-> <<At(1, 1, ConnectRequest, FALSE)>>,
     senders |-> {1},
     payloads |-> [from \in {1} |->
                     {make_input_message(q, Position(q, 0), FALSE, 0) : q \in 1..InputSeqs}],
     acking |-> {1},
     recvs |-> InputRecvs,
     iters |-> InputIters]

\* a shooter at the origin and a target two units down the ray: the target
\* steps aside, the shooter fires with old and new shot times; the clients
\* number their inputs themselves (sequence_num 0 stands for the next number)
Shots ==
    [map |-> <<>>,
     spawns |-> {SpawnAt(<<Position(0, 0), Position(2, 0)>>)},
     script |-> <<At(1, 1, ConnectRequest, FALSE), At(1, 2, ConnectRequest, FALSE)>>,
     senders |-> {1, 2},
     payloads |-> (1 :> {make_input_message(0, Position(0, 0), TRUE, t) : t \in 0..ShotTimes})
                  @@ (2 :> {make_input_message(0, Position(2, 2), FALSE, 0)}),
     acking |-> {1, 2},
     recvs |-> ShotRecvs,
     iters |-> ShotTimes + 2]

\* the scripted scenarios have no other traffic
NoTraffic == [senders |-> {}, payloads |-> <<>>, acking |-> {}, recvs |-> 0]

Scripted(map, points, script, iters) ==
    [map |-> map, spawns |-> {SpawnAt(points)}, script |-> script, iters |-> iters]
    @@ NoTraffic

\* three players on one line: the shooter, a far target in slot 1 and a near
\* target in slot 2
Nearest ==
    Scripted(<<>>, <<Position(0, 0), Position(3, 0), Position(2, 0)>>,
             <<At(1, 1, ConnectRequest, FALSE), At(1, 2, ConnectRequest, FALSE),
               At(1, 3, ConnectRequest, FALSE)>> \o Burst(2, 1, 1, 1, 1),
             2)

\* a box between the shooter and the target
Walled ==
    Scripted(<<[center |-> Position(1, 0), half_extent |-> 500]>>,
             <<Position(0, 0), Position(2, 0)>>,
             <<At(1, 1, ConnectRequest, FALSE), At(1, 2, ConnectRequest, FALSE)>>
               \o Burst(2, 1, 1, 1, 1),
             2)

\* the shooter keeps firing at a target after it has killed it
Corpse ==
    Scripted(<<>>, <<Position(0, 0), Position(2, 0)>>,
             <<At(1, 1, ConnectRequest, FALSE), At(1, 2, ConnectRequest, FALSE)>>
               \o Burst(1, 1, 1, STARTING_HEALTH \div BULLET_DAMAGE + CorpseExtra, 0),
             2)

\* the shooter kills the player of slot 2 and keeps firing at it for two
\* ticks; then the player of slot 1 steps into the line of fire and is killed;
\* all three clients acknowledge what they were sent and the game goes on
\* until the respawns are due
Lost ==
    Scripted(<<>>, <<Position(0, 0), Position(1, 2), Position(2, 0)>>,
             <<At(1, 1, ConnectRequest, FALSE), At(1, 2, ConnectRequest, FALSE),
               At(1, 3, ConnectRequest, FALSE)>>
               \o Burst(1, 1, 1, INPUT_BUFFER_SIZE, 0)
               \o Burst(2, 1, INPUT_BUFFER_SIZE + 1, 2 * INPUT_BUFFER_SIZE, 0)
               \o <<At(2, 2, make_input_message(1, Position(1, 0), FALSE, 0), FALSE)>>
               \o Burst(3, 1, 2 * INPUT_BUFFER_SIZE + 1,
                        2 * INPUT_BUFFER_SIZE + STARTING_HEALTH \div BULLET_DAMAGE, 0)
               \o <<At(4, 1, make_input_message(3 * INPUT_BUFFER_SIZE, Position(0, 0), FALSE, 0), TRUE),
                    At(4, 2, make_input_message(2, Position(1, 0), FALSE, 0), TRUE),
                    At(4, 3, make_input_message(1, Position(2, 0), FALSE, 0), TRUE)>>,
             3 + RESPAWN_TIME + LostExtra)

\* client 2 acknowledges its connect-accept, client 1 never does: the sweep
\* gives client 1 up at the retry limit; then client 2 fires two shots whose
\* shot times are as old as the oldest frame of the history
GivenUp == NETWORK_UPDATE_INTERVAL * (MAX_RETRANSMIT_ATTEMPTS + 1)

Leave ==
    Scripted(<<>>, <<Position(0, 0), Position(2, 0)>>,
             <<At(1, 1, ConnectRequest, FALSE), At(1, 2, ConnectRequest, FALSE),
               At(2, 2, make_input_message(1, Position(2, 0), FALSE, 0), TRUE)>>
               \o Burst(GivenUp + 1, 2, 2, 2, GivenUp - HISTORY_SIZE)
               \o Burst(GivenUp + 1, 2, 3, 3, GivenUp - HISTORY_SIZE + 1),
             GivenUp + LeaveExtra)

\* nobody acknowledges anything: the sweep gives both clients up at once
Abandon ==
    Scripted(<<>>, <<Position(0, 0), Position(2, 0)>>,
             <<At(1, 1, ConnectRequest, FALSE), At(1, 2, ConnectRequest, FALSE)>>,
             GivenUp + LeaveExtra)

\* both clients acknowledge their connect-accepts; client 1 falls silent,
\* client 2 keeps sending: the sweep removes client 1 for inactivity
IdleSweeps == PEER_INACTIVITY_TIMEOUT \div NetworkUpdateDt + 1

Idle ==
    Scripted(<<>>, <<Position(0, 0), Position(2, 0)>>,
             <<At(1, 1, ConnectRequest, FALSE), At(1, 2, ConnectRequest, FALSE),
               At(2, 1, make_input_message(1, Position(0, 0), FALSE, 0), TRUE),
               At(2, 2, make_input_message(1, Position(2, 0), FALSE, 0), TRUE),
               At(NETWORK_UPDATE_INTERVAL * (IdleSweeps \div 2), 2,
                  make_input_message(2, Position(2, 0), FALSE, 0), TRUE)>>,
             NETWORK_UPDATE_INTERVAL * IdleSweeps + LeaveExtra)

\* a datagram that holds the header and the first byte of a ConnectRequest
Short ==
    Scripted(<<>>, <<Position(0, 0)>>,
             <<At(1, 1, ConnectRequest, FALSE) @@ [cut |-> 1]>>,
             SNAPSHOT_TIME)

ServerScenarios ==
    {Join, Inputs, Shots, Nearest, Walled, Corpse, Lost, Leave, Abandon, Idle, Short}

ServerInit == ServerInitOf(ServerScenarios)

ServerSpec == ServerInit /\ [][ServerNext]_vars


----------------------------------------------------------------------------
(* Connecting *)

\* the entries of one kind in the log of a handler
EventsOf(events, kind) == SelectSeq(events, LAMBDA e : e.ev = kind)

Mapped(s, peer_id) == \E i \in Slots : s.clients[i].peer_id = peer_id

FreeSlots(s) == {i \in Slots : ~PlayerActive(s.frame.players[i])}

\* the datagrams of one message type a handler sent to a peer
TypedTo(s, peer_id, type) ==
    SelectSeq(s.network.socket_out,
              LAMBDA d : d.to = peer_id /\ d.packet.payload.type = type)

\* the main thread is in server_process_packets, server_tick, ...
ProcessPacketsStep == th.pc = "process_packets" /\ th'.pc = "tick"

TickStep == th.pc = "tick" /\ th'.pc = "snapshot"

BroadcastStep ==
    /\ th.pc = "snapshot" /\ th'.pc = "network_update"
    /\ th.snapshot_accumulator + 1 >= SNAPSHOT_TIME

NetworkUpdateStep == th.pc = "network_update" /\ th'.pc = "respawns"

RespawnsStep == th.pc = "respawns" /\ th'.pc = "process_packets"

\* one server_process_packets: every connect request of an unmapped peer is
\* given the lowest inactive slot, active with full health, and answered
\* with one reliable connect-accept; a request of a mapped peer does nothing
C11_ConnectStep ==
    LET polled == EventsOf(SERVER'.events, "polled")
        connects == EventsOf(SERVER'.events, "connect")
        requested == {polled[k].from :
                        k \in {m \in DOMAIN polled : polled[m].type = MSG_CONNECT_REQUEST}}
        newcomers == {p \in requested : ~Mapped(SERVER, p)}
    IN  /\ \A k \in DOMAIN connects :
             LET e == connects[k]
                 accepts == TypedTo(SERVER', e.peer_id, MSG_CONNECT_ACCEPT)
             IN  /\ e.peer_id \in newcomers
                 /\ e.player_idx \in FreeSlots(SERVER)
                 /\ \A i \in 0..(e.player_idx - 1) :
                       \/ i \notin FreeSlots(SERVER)
                       \/ \E m \in 1..(k - 1) : connects[m].player_idx = i
                 /\ SERVER'.frame.players[e.player_idx].player_idx = e.player_idx
                 /\ SERVER'.frame.players[e.player_idx].health = 100
                 /\ SERVER'.clients[e.player_idx].peer_id = e.peer_id
                 /\ Len(accepts) = 1
                 /\ accepts[1].packet.reliable /\ ~accepts[1].retransmit
                 /\ accepts[1].packet.payload.player_index = e.player_idx
                 /\ accepts[1].packet.payload.server_time = get_time(SERVER')
        /\ \A p \in PeerIds :
             /\ Cardinality({k \in DOMAIN connects : connects[k].peer_id = p})
                  = IF p \in newcomers THEN 1 ELSE 0
             /\ p \notin newcomers => TypedTo(SERVER', p, MSG_CONNECT_ACCEPT) = <<>>
        /\ \A i \in Slots :
             (\A k \in DOMAIN connects : connects[k].player_idx # i)
                => /\ SERVER'.frame.players[i] = SERVER.frame.players[i]
                   /\ SERVER'.clients[i].peer_id = SERVER.clients[i].peer_id

\* one broadcast_snapshot: every client gets one snapshot, and the snapshot
\* holds every player that has a slot
C11_SnapshotStep ==
    \A i \in Slots :
       SERVER.clients[i].peer_id # 0 =>
          LET snapshots == TypedTo(SERVER', SERVER.clients[i].peer_id, MSG_SERVER_SNAPSHOT)
          IN  /\ Len(snapshots) = 1
              /\ \A j \in Slots :
                    SERVER.clients[j].peer_id # 0 =>
                       \E k \in DOMAIN snapshots[1].packet.payload.players :
                          LET q == snapshots[1].packet.payload.players[k]
                          IN  /\ q.player_idx = j
                              /\ q.health = SERVER.frame.players[j].health

\* C11: a connect request of a peer without a slot gives it the lowest
\* inactive slot, active with health 100, and one reliable CONNECT_ACCEPT with
\* that index and the server time; every snapshot broadcast holds every player
\* that has a slot; a connect request of a peer with a slot changes no slot
\* and sends nothing (as long as a slot is free for every newcomer)
C11_Connect ==
    /\ [][ProcessPacketsStep => C11_ConnectStep]_vars
    /\ [][BroadcastStep => C11_SnapshotStep]_vars

\* server_process_packets has just given slot 1 to a second newcomer and has
\* seen a second connect request of a peer
C11_Witness ==
    /\ th.pc = "tick"
    /\ \E k \in DOMAIN SERVER.events :
          SERVER.events[k].ev = "connect" /\ SERVER.events[k].player_idx = 1
    /\ \E k, m \in DOMAIN SERVER.events :
          /\ k < m
          /\ SERVER.events[k].ev = "polled" /\ SERVER.events[m].ev = "polled"
          /\ SERVER.events[k].type = MSG_CONNECT_REQUEST
          /\ SERVER.events[m].type = MSG_CONNECT_REQUEST
          /\ SERVER.events[k].from = SERVER.events[m].from


----------------------------------------------------------------------------
(* Peers and slots *)

SlotsOf(s, peer_id) == {i \in Slots : s.clients[i].peer_id = peer_id}

\* no peer in two slots, and no slot of a peer the transport does not know
SlotsHavePeers(s) ==
    /\ \A id \in PeerIds : Cardinality(SlotsOf(s, id)) <= 1
    /\ \A i \in Slots :
          /\ PlayerActive(s.frame.players[i]) <=> ClientActive(s.clients[i])
          /\ ClientActive(s.clients[i]) =>
                /\ s.clients[i].peer_id \in PeerIds
                /\ s.network.peers[s.clients[i].peer_id].present

\* every peer of the transport's table has a slot
PeersHaveSlots(s) ==
    \A id \in PeerIds : s.network.peers[id].present => SlotsOf(s, id) # {}

\* C12: once server_process_packets has handled what was received, every
\* peer of the peer table has exactly one slot and every active slot exactly
\* one peer of the peer table
C12_Bijection ==
    th.pc # "process_packets" => SlotsHavePeers(SERVER) /\ PeersHaveSlots(SERVER)

\* the half of C12 that holds, also while datagrams are waiting to be polled
C12_SlotsHavePeers == SlotsHavePeers(SERVER)


----------------------------------------------------------------------------
(* Inputs *)

\* the sequence numbers of a buffer that are applied when the last applied
\* number is last: each one larger than everything before it
RECURSIVE Fresh(_, _)
Fresh(buffer, last) ==
    IF buffer = <<>> THEN <<>>
    ELSE IF Head(buffer).sequence_num <= last THEN Fresh(Tail(buffer), last)
    ELSE <<Head(buffer)>> \o Fresh(Tail(buffer), Head(buffer).sequence_num)

\* the sequence numbers tick applied for a slot, in the order it applied them
Applied(events, i) ==
    LET own == SelectSeq(events, LAMBDA e : e.ev = "input" /\ e.player_idx = i)
    IN  [k \in DOMAIN own |-> own[k].sequence_num]

\* one tick: the buffer of a player that is alive at its turn is drained in
\* its order, the stale inputs skipped, and last_processed follows the
\* applied sequence numbers
C13_TickStep ==
    \A i \in Slots :
       LET before == SERVER.clients[i]
           after == SERVER'.clients[i]
           applied == Applied(SERVER'.events, i)
           fresh == Fresh(before.input_buffer, before.last_processed)
           killed_first == \E k \in DOMAIN SERVER'.events :
                              LET e == SERVER'.events[k]
                              IN  /\ e.ev = "shot" /\ e.shooter_idx < i
                                  /\ e.hit_player = i /\ e.health_after = 0
           drained == /\ ClientActive(before) /\ PlayerAlive(SERVER.frame.players[i])
                      /\ ~killed_first
       IN  /\ after.last_processed >= before.last_processed
           /\ \A k \in DOMAIN applied :
                 /\ applied[k] > before.last_processed
                 /\ \A m \in 1..(k - 1) : applied[m] < applied[k]
           /\ applied # <<>> => after.last_processed = applied[Len(applied)]
           /\ applied = <<>> => after.last_processed = before.last_processed
           /\ drained =>
                 /\ applied = [k \in DOMAIN fresh |-> fresh[k].sequence_num]
                 /\ after.input_buffer = <<>>
                 /\ fresh # <<>> =>
                       SERVER'.frame.players[i].position = fresh[Len(fresh)].move
           /\ ~drained => applied = <<>> /\ after.input_buffer = before.input_buffer

\* one server_process_packets: the inputs polled for a client are appended to
\* its buffer in the order they were polled, as far as the buffer has room
C13_BufferStep ==
    \A i \in Slots :
       LET before == SERVER.clients[i]
           after == SERVER'.clients[i]
           polled == SelectSeq(SERVER'.events,
                               LAMBDA e : /\ e.ev = "polled"
                                          /\ e.from = before.peer_id
                                          /\ e.type = MSG_CLIENT_INPUT)
           arrived == before.input_buffer \o [k \in DOMAIN polled |-> polled[k].payload]
       IN  ClientActive(before) =>
              /\ after.last_processed = before.last_processed
              /\ after.input_buffer =
                    SubSeq(arrived, 1, IF Len(arrived) <= INPUT_BUFFER_SIZE
                                       THEN Len(arrived) ELSE INPUT_BUFFER_SIZE)

\* C13: tick applies each player's buffered inputs in arrival order and skips
\* every input whose sequence number is <= last_processed, so last_processed
\* never decreases and no sequence number is applied twice
C13_InputOrder ==
    /\ [][TickStep => C13_TickStep]_vars
    /\ [][ProcessPacketsStep => C13_BufferStep]_vars
    /\ [][\A i \in Slots :
             ClientActive(SERVER.clients[i]) /\ ~NetworkUpdateStep
                => SERVER'.clients[i].last_processed >= SERVER.clients[i].last_processed]_vars

\* a tick has applied two inputs of a player and skipped a stale one
C13_Witness ==
    /\ th.pc = "snapshot"
    /\ Len(Applied(SERVER.events, 0)) >= 2
    /\ \E k \in DOMAIN SERVER.events :
          SERVER.events[k].ev = "stale" /\ SERVER.events[k].player_idx = 0


----------------------------------------------------------------------------
(* Shots *)

ShotsOf(events) == EventsOf(events, "shot")

\* the frames of the history that are not younger than a shot
NotYounger(history, shot_time) ==
    {k \in DOMAIN history : history[k].timestamp <= shot_time}

\* one tick: each shot takes its ray from the youngest frame of the history
\* that is not younger than shot_time, and from the live frame if there is none
C14_ShotStep ==
    \A n \in DOMAIN ShotsOf(SERVER'.events) :
       LET e == ShotsOf(SERVER'.events)[n]
           older == NotYounger(SERVER.history, e.shot_time)
       IN  IF older # {}
           THEN /\ e.found
                /\ \E k \in older :
                      /\ \A m \in older :
                            SERVER.history[m].timestamp <= SERVER.history[k].timestamp
                      /\ e.historical_timestamp = SERVER.history[k].timestamp
                      /\ e.historical_players = SERVER.history[k].players
                      /\ e.origin = SERVER.history[k].players[e.shooter_idx].position
           ELSE /\ ~e.found
                /\ e.historical_players = e.live_players
                /\ e.origin = e.live_players[e.shooter_idx].position

\* the part of C14 that holds: the frame perform_lag_compensated_shot selects
\* is the one with the largest timestamp <= shot_time, or the live frame
C14_FrameSelection == [][TickStep => C14_ShotStep]_vars

\* what the shot of an event hits when it is traced against given players
TracedAgainst(e, players) ==
    trace_shot(create_shot(e.historical_players[e.shooter_idx]), cfg.map, players)
        .hit_player_idx

\* C14: every shot is resolved against the frame selected for it (the one
\* with the largest timestamp <= shot_time, or the live frame when there is
\* none): it hits what its ray hits among the players of that frame
C14_ResolvedInFrame ==
    th.pc = "snapshot" =>
       \A n \in DOMAIN ShotsOf(SERVER.events) :
          LET e == ShotsOf(SERVER.events)[n]
          IN  e.hit_player = TracedAgainst(e, e.historical_players)

\* a tick has resolved one shot from a frame that is not the youngest of the
\* history and another from the live frame
C14_SelectionSeen ==
    /\ th.pc = "snapshot"
    /\ \E n, m \in DOMAIN ShotsOf(SERVER.events) :
          LET e == ShotsOf(SERVER.events)[n]
              f == ShotsOf(SERVER.events)[m]
          IN  /\ e.found /\ e.historical_timestamp + 1 < e.time
              /\ ~f.found


\* the players other than the shooter whose sphere the ray of a shot enters,
\* at the positions of the given frame
OnRay(e, players) ==
    {i \in Slots :
        /\ PlayerActive(players[i]) /\ i # e.shooter_idx
        /\ raycast_sphere(create_shot(e.historical_players[e.shooter_idx]).ray,
                          players[i].position).hit}

\* C15: a shot whose selected frame has one target on the ray, which has
\* since moved off the ray, hits that target and takes 10 off its health
C15_HistoricalHit ==
    th.pc = "snapshot" =>
       \A n \in DOMAIN ShotsOf(SERVER.events) :
          LET e == ShotsOf(SERVER.events)[n]
          IN  \A target \in Slots :
                 /\ e.found
                 /\ OnRay(e, e.historical_players) = {target}
                 /\ OnRay(e, e.live_players) = {}
                 /\ e.live_players[target].health >= BULLET_DAMAGE
                 => /\ e.hit_player = target
                    /\ e.health_after = e.health_before - 10


\* the distance at which the ray of a shot enters the nearest obstacle, or the
\* length of the ray if it enters none
ObstacleDistance(e) ==
    LET ray == create_shot(e.historical_players[e.shooter_idx]).ray
        hits == {raycast_obb(ray, cfg.map[k]).distance :
                    k \in {m \in DOMAIN cfg.map : raycast_obb(ray, cfg.map[m]).hit}}
    IN  IF hits = {} THEN ray.length
        ELSE CHOOSE d \in hits : \A other \in hits : d <= other

\* the distance at which the ray of a shot enters the sphere of player i
PlayerDistance(e, players, i) ==
    raycast_sphere(create_shot(e.historical_players[e.shooter_idx]).ray,
                   players[i].position).distance

\* the players a shot can hit: on the ray and nearer than every obstacle
Exposed(e, players) ==
    {i \in OnRay(e, players) : PlayerDistance(e, players, i) < ObstacleDistance(e)}

\* C16: the player awarded the hit is the one whose sphere the ray enters at
\* the smallest distance, nearer than any obstacle, the lowest index among
\* equals; nobody is hit when there is no such player
C16_NearestHit ==
    th.pc = "snapshot" =>
       \A n \in DOMAIN ShotsOf(SERVER.events) :
          LET e == ShotsOf(SERVER.events)[n]
              exposed == Exposed(e, e.live_players)
          IN  IF exposed = {} THEN e.hit_player = -1
              ELSE /\ e.hit_player \in exposed
                   /\ \A i \in exposed :
                         \/ PlayerDistance(e, e.live_players, e.hit_player)
                               < PlayerDistance(e, e.live_players, i)
                         \/ /\ PlayerDistance(e, e.live_players, e.hit_player)
                                  = PlayerDistance(e, e.live_players, i)
                            /\ e.hit_player <= i


----------------------------------------------------------------------------
(* Damage, death and respawn *)

HitsOf(events) == SelectSeq(ShotsOf(events), LAMBDA e : e.hit_player # -1)

\* the shots that took the health of their target to zero
KillsOf(events) ==
    SelectSeq(HitsOf(events), LAMBDA e : e.health_before > 0 /\ e.health_after = 0)

\* C17: a shot that hits a player takes exactly 10 off its health and never
\* takes it below 0; every client gets one reliable PLAYER_DIED per player
\* whose health reached 0, naming killer and victim
C17_Damage ==
    th.pc = "snapshot" =>
       /\ \A n \in DOMAIN HitsOf(SERVER.events) :
             LET e == HitsOf(SERVER.events)[n]
             IN  e.health_after = e.health_before - 10 /\ e.health_after >= 0
       /\ \A i \in Slots :
             ClientActive(SERVER.clients[i]) =>
                LET died == TypedTo(SERVER, SERVER.clients[i].peer_id, MSG_PLAYER_DIED)
                    kills == KillsOf(SERVER.events)
                IN  /\ Len(died) = Len(kills)
                    /\ \A k \in DOMAIN died :
                          /\ died[k].packet.reliable
                          /\ died[k].packet.payload.killer_idx = kills[k].shooter_idx
                          /\ died[k].packet.payload.killed_idx = kills[k].hit_player


\* C18: a player of a connected peer whose health reached zero is respawned
\* by the update_respawns that runs 1.5 s of server time after the kill: at
\* the top of the loop no such player has been dead for RESPAWN_TIME
C18_RespawnDue ==
    th.pc = "process_packets" =>
       \A i \in Slots :
          ClientActive(SERVER.clients[i]) /\ app.killed_at[i] # -1
             => /\ ~PlayerAlive(SERVER.frame.players[i])
                /\ SERVER.time < app.killed_at[i] + RESPAWN_TIME


----------------------------------------------------------------------------
(* The life of a slot *)

SlotState(s, i) ==
    IF ~PlayerActive(s.frame.players[i]) THEN "INACTIVE"
    ELSE IF PlayerAlive(s.frame.players[i]) THEN "ACTIVE_ALIVE"
    ELSE "ACTIVE_DEAD"

\* the handler of the step logged an event of this kind for slot i
Logged(kind, i) ==
    \E k \in DOMAIN SERVER'.events :
       LET e == SERVER'.events[k]
       IN  /\ e.ev = kind
           /\ i = (IF kind = "shot" THEN e.hit_player
                   ELSE IF kind = "respawn" THEN e.player_index
                   ELSE e.player_idx)

\* the change of state of slot i in one step is one of the four transitions
C19_Allowed(i) ==
    LET from == SlotState(SERVER, i)
        to == SlotState(SERVER', i)
    IN  \/ from = to
        \/ /\ from = "INACTIVE" /\ to = "ACTIVE_ALIVE"
           /\ ProcessPacketsStep /\ Logged("connect", i)
        \/ /\ from = "ACTIVE_ALIVE" /\ to = "ACTIVE_DEAD"
           /\ TickStep /\ Logged("shot", i)
           /\ SERVER'.frame.players[i].health = 0
        \/ /\ from = "ACTIVE_DEAD" /\ to = "ACTIVE_ALIVE"
           /\ RespawnsStep /\ Logged("respawn", i)
           /\ app.killed_at[i] # -1
           /\ SERVER.time >= app.killed_at[i] + RESPAWN_TIME
           /\ SERVER'.frame.players[i].health = STARTING_HEALTH
        \/ /\ to = "INACTIVE"
           /\ NetworkUpdateStep /\ Logged("left", i)
           /\ ~SERVER'.network.peers[SERVER.clients[i].peer_id].present
           /\ ~ClientActive(SERVER'.clients[i])

\* C19: a slot goes from INACTIVE to ACTIVE_ALIVE on a connect, from
\* ACTIVE_ALIVE to ACTIVE_DEAD when a shot takes its health to zero, from
\* ACTIVE_DEAD to ACTIVE_ALIVE when its respawn is due, and from any state to
\* INACTIVE when its peer is removed; it makes no other transition
C19_Transitions == [][\A i \in Slots : C19_Allowed(i)]_vars

\* update_respawns has just brought a dead player back to life
C19_Witness ==
    /\ th.pc = "process_packets"
    /\ \E k \in DOMAIN SERVER.events :
          /\ SERVER.events[k].ev = "respawn"
          /\ SlotState(SERVER, SERVER.events[k].player_index) = "ACTIVE_ALIVE"
    /\ SERVER.time > RESPAWN_TIME


----------------------------------------------------------------------------
(* Leaving *)

\* the PLAYER_LEFT events for slot i that a handler sent to a peer, the
\* retransmissions of the sweep left aside
LeftTo(s, peer_id, i) ==
    SelectSeq(s.network.socket_out,
              LAMBDA d : /\ d.to = peer_id /\ ~d.retransmit
                         /\ d.packet.payload = make_leave_event(i))

\* network_send takes a reliable packet for this peer: its next sequence
\* number lies in the window
WindowOpen(s, peer_id) ==
    LET peer == s.network.peers[peer_id]
        diff == CALCULATE_SEQUENCE_OFFSET((peer.local_sequence + 1) % SEQ_MOD,
                                          peer.window_start)
    IN  diff >= 0 /\ diff < WINDOW_SIZE

\* one network_update: the slot of every peer the sweep removed is inactive,
\* each client that is still there and whose window was open got one reliable
\* PLAYER_LEFT for the slot, the removed peer none and nobody more than one
C20_RemovalStep ==
    \A i \in Slots :
       LET owner == SERVER.clients[i].peer_id
       IN  ClientActive(SERVER.clients[i]) /\ ~SERVER'.network.peers[owner].present
           => /\ SlotState(SERVER', i) = "INACTIVE"
              /\ ~ClientActive(SERVER'.clients[i])
              /\ LeftTo(SERVER', owner, i) = <<>>
              /\ \A j \in Slots \ {i} :
                    LET other == SERVER.clients[j].peer_id
                        left == LeftTo(SERVER', other, i)
                    IN  ClientActive(SERVER.clients[j]) =>
                           /\ Len(left) <= 1
                           /\ ClientActive(SERVER'.clients[j]) /\ WindowOpen(SERVER, other)
                                 => Len(left) = 1 /\ left[1].packet.reliable

\* the part of C20 that holds: the event reaches every remaining client to
\* which the transport accepts a reliable packet, and peers are removed
\* nowhere but in network_update
C20_WindowPermitting ==
    /\ [][NetworkUpdateStep => C20_RemovalStep]_vars
    /\ [][\A id \in PeerIds :
             SERVER.network.peers[id].present /\ ~SERVER'.network.peers[id].present
                => NetworkUpdateStep]_vars

\* C20: when network_update has removed a peer that owned a slot, the slot is
\* inactive, every client that is still active has been sent one reliable
\* PLAYER_LEFT with the slot's index, and the removed peer none
C20_PlayerLeft ==
    th.pc = "respawns" =>
       \A k \in DOMAIN EventsOf(SERVER.events, "left") :
          LET e == EventsOf(SERVER.events, "left")[k]
          IN  /\ SlotState(SERVER, e.player_idx) = "INACTIVE"
              /\ ~ClientActive(SERVER.clients[e.player_idx])
              /\ LeftTo(SERVER, e.peer_id, e.player_idx) = <<>>
              /\ \A j \in Slots :
                    LET left == LeftTo(SERVER, SERVER.clients[j].peer_id, e.player_idx)
                    IN  ClientActive(SERVER.clients[j]) =>
                           Len(left) = 1 /\ left[1].packet.reliable

\* network_update has just removed the owner of slot 0 and told the client of
\* slot 1
C20_ToldSeen ==
    /\ th.pc = "respawns"
    /\ \E k \in DOMAIN SERVER.events :
          SERVER.events[k].ev = "left" /\ SERVER.events[k].player_idx = 0
    /\ ClientActive(SERVER.clients[1])
    /\ Len(LeftTo(SERVER, SERVER.clients[1].peer_id, 0)) = 1

----------------------------------------------------------------------------
(* part_001: the game client.  The client's clocks (server_time, render_time,
   the delays, the stamps of the snapshots it keeps) are float seconds in the
   code; here they count 1/3000 s, so that a tick is 50 and 10 ms is 30, and
   a product with dt is cut to a whole count. *)

Millis(ms) == 3 * ms

\* TICK_TIME (1.0f / TICK_RATE)
TICK_TIME == Millis(1000) \div TICK_RATE

SNAPSHOT_COUNT == 32
\* ring_buffer<InputMessage, 64> input_history
INPUT_HISTORY_SIZE == 64

TIME_SYNC_LARGE_CORRECTION == Millis(100)
MIN_DELAY == Millis(20)
MAX_DELAY == Millis(150)
INTERP_TRANSITION_SPEED == 2

\* the address of the server in the client's peer table
ServerPeer == 1

Abs(v) == IF v < 0 THEN -v ELSE v

\* a quotient cut towards zero, as a conversion to a whole count cuts it
TruncDiv(a, b) == IF a >= 0 THEN a \div b ELSE -((-a) \div b)

\* a zero-initialized Player (Player e = {}, or an element of a
\* value-initialized fixed_array): unlike ZeroPlayer its player_idx is 0
ValuePlayer == [ZeroPlayer EXCEPT !.player_idx = 0]

\* dequantize(QuantizedPlayer &): q.pos * 0.002f, which the model cuts to
\* whole units
dequantize(q) ==
    [player_idx |-> q.player_idx,
     last_processed_seq |-> q.last_processed_seq,
     position |-> Position(TruncDiv(q.pos_x, 500), TruncDiv(q.pos_z, 500)),
     health |-> q.health]

\* the loop of process_snapshot that fills snapshot.players
Dequantized(players) == [i \in 1..Len(players) |-> dequantize(players[i])]

\* what a read of CLIENT.player_idx = -1 elements before the array can yield
StrayPlayers ==
    {[ValuePlayer EXCEPT !.last_processed_seq = q, !.health = h] :
        q \in {0, SEQ_MOD}, h \in {0, STARTING_HEALTH}}

\* a Player * that is nullptr, or that points to a player
NullPlayer == [null |-> TRUE]
PointsTo(p) == [null |-> FALSE, player |-> p]

\* find_local: the guard (player_idx < 0 && player_idx >= MAX_PLAYERS) never
\* holds, so the result is &players->data[CLIENT.player_idx], whatever
\* m_size is: an element past the pushed ones is still zero-initialized, and
\* data[-1] is outside the array.  The pointers it can return.
find_local(c, players) ==
    IF c.player_idx < 0 /\ c.player_idx >= MAX_PLAYERS THEN {NullPlayer}
    ELSE IF c.player_idx < 0 THEN {PointsTo(p) : p \in StrayPlayers}
    ELSE IF c.player_idx + 1 <= Len(players) THEN {PointsTo(players[c.player_idx + 1])}
    ELSE {PointsTo(ValuePlayer)}

process_connect_accept(c, msg) ==
    [c EXCEPT !.player_idx = msg.player_index,
              !.server_time = msg.server_time,
              !.connected = TRUE,
              !.events = Append(@, [ev |-> "accept", msg |-> msg])]

\* the replay loop of process_snapshot over input_history, from index i on:
\* [state, replayed]
RECURSIVE ReplayLoop(_, _, _, _)
ReplayLoop(history, i, last_processed_seq, acc) ==
    IF i > Len(history) THEN acc
    ELSE IF history[i].sequence_num > last_processed_seq
    THEN ReplayLoop(history, i + 1, last_processed_seq,
                    [state |-> apply_player_input(acc.state, history[i]),
                     replayed |-> Append(acc.replayed, history[i].sequence_num)])
    ELSE ReplayLoop(history, i + 1, last_processed_seq, acc)

\* process_snapshot from CLIENT.snapshots.push on: c is the client at the
\* call, synced the client after the clock correction.  The set of client
\* states it can end in.
Reconcile(c, synced, snap, snapshot) ==
    LET pushed == [synced EXCEPT !.snapshots = ring_buffer_push(@, snapshot, SNAPSHOT_COUNT)]
        seen(local, replayed, state) ==
            [ev |-> "snapshot", msg |-> snap, player_idx |-> c.player_idx,
             estimate |-> c.server_time, server_time |-> synced.server_time,
             snapshot |-> snapshot, input_history |-> c.input_history,
             local |-> local, replayed |-> replayed, local_player |-> state]
    IN  {IF local.null
         THEN [pushed EXCEPT !.events = Append(@, seen(local, <<>>, c.local_player))]
         ELSE LET replay == ReplayLoop(c.input_history, 1, local.player.last_processed_seq,
                                       [state |-> local.player, replayed |-> <<>>])
              IN  [pushed EXCEPT
                     !.local_player = replay.state,
                     !.events = Append(@, seen(local, replay.replayed, replay.state))]
         : local \in find_local(pushed, snapshot.players)}

\* process_snapshot with the difference of the two clocks as time_diff
process_snapshot_diff(c, snap) ==
    LET time_diff == snap.server_time - c.server_time
        synced == IF Abs(time_diff) > TIME_SYNC_LARGE_CORRECTION
                  THEN [c EXCEPT !.server_time = snap.server_time]
                  ELSE c
    IN  Reconcile(c, synced, snap,
                  [timestamp |-> snap.server_time, players |-> Dequantized(snap.players)])

\* process_snapshot.  Its first statement,
\*   float time_diff = snap->server_time = CLIENT.server_time;
\* stores the client's clock into the message before anything reads the stamp.
process_snapshot(c, snap) ==
    LET stored == [snap EXCEPT !.server_time = c.server_time]
        time_diff == stored.server_time
        synced == IF Abs(time_diff) > TIME_SYNC_LARGE_CORRECTION
                  THEN [c EXCEPT !.server_time = stored.server_time]
                  ELSE c
    IN  Reconcile(c, synced, snap,
                  [timestamp |-> stored.server_time, players |-> Dequantized(snap.players)])

\* the switch of client_process_packets on the first byte of the payload;
\* the kill and leave events only reach the user interface
ClientDispatch(c, polled) ==
    IF polled.payload.type = MSG_SERVER_SNAPSHOT THEN process_snapshot(c, polled.payload)
    ELSE IF polled.payload.type = MSG_CONNECT_ACCEPT
    THEN {process_connect_accept(c, polled.payload)}
    ELSE {c}

\* client_process_packets: the set of client states it can end in
RECURSIVE client_process_packets(_)
client_process_packets(c) ==
    UNION {IF ~o.ok THEN {[c EXCEPT !.net = o.n]}
           ELSE UNION {client_process_packets(
                          [d EXCEPT !.net = network_release_buffer(@, o.polled.buffer_index)])
                       : d \in ClientDispatch([c EXCEPT !.net = o.n], o.polled)}
           : o \in network_poll(c.net)}
\* update_render_time without the final glm::clamp
update_render_time_unclamped(c) ==
    LET future_buffer == c.snapshots[Len(c.snapshots)].timestamp - c.render_time
    IN  IF Len(c.snapshots) < 2 THEN c
        ELSE IF future_buffer < MIN_DELAY THEN [c EXCEPT !.target_delay = @ + Millis(10)]
        ELSE IF future_buffer > MAX_DELAY THEN [c EXCEPT !.target_delay = @ - Millis(10)]
        ELSE c

\* update_render_time
update_render_time(c) ==
    LET newest_time == c.snapshots[Len(c.snapshots)].timestamp
        future_buffer == newest_time - c.render_time
        target_delay == IF future_buffer < MIN_DELAY THEN c.target_delay + Millis(10)
                        ELSE IF future_buffer > MAX_DELAY THEN c.target_delay - Millis(10)
                        ELSE c.target_delay
    IN  IF Len(c.snapshots) < 2 THEN c
        ELSE [c EXCEPT !.target_delay = Clamp(target_delay, MIN_DELAY, MAX_DELAY)]

\* sync_render_time
sync_render_time(c, dt) ==
    LET render_time == c.render_time + dt
        delay_diff == c.target_delay - c.current_delay
        current_delay == c.current_delay
                         + TruncDiv(delay_diff * INTERP_TRANSITION_SPEED * dt, Millis(1000))
        target_render_time == c.server_time - current_delay
        error == target_render_time - render_time
        correction_speed == IF Abs(error) > Millis(100) THEN 4 ELSE 1
    IN  [c EXCEPT
           !.current_delay = current_delay,
           !.render_time =
               IF Abs(error) > Millis(1000) THEN target_render_time
               ELSE IF Abs(error) > Millis(1)
               THEN render_time + TruncDiv(error * correction_speed * dt, Millis(1000))
               ELSE render_time]

\* apply_input: number the input, send it unreliably, keep it and predict
apply_input(c, move, shoot) ==
    LET input == make_input_message(c.input_sequence, move, shoot, 0)
    IN  [c EXCEPT
           !.input_sequence = @ + 1,
           !.net = network_send(@, c.server_peer_id, input, SIZEOF_InputMessage, FALSE),
           !.input_history = ring_buffer_push(@, input, INPUT_HISTORY_SIZE),
           !.local_player = apply_player_input(@, input),
           !.events = Append(@, [ev |-> "input", input |-> input])]

\* update(dt), without the camera and the drawing: the set of client states
\* it can end in
update(c, dt, move, shoot) ==
    LET synced == sync_render_time(c, dt)
        advanced == [synced EXCEPT !.server_time = @ + dt]
    IN  client_process_packets(apply_input(advanced, move, shoot))

\* init up to the loop that waits for the connection: CLIENT is a zeroed
\* global
init ==
    LET added == network_add_peer(network_init(FALSE), ServerPeer)
    IN  [net |-> network_send(added, ServerPeer, ConnectRequest, SIZEOF_ConnectRequest, TRUE),
         server_peer_id |-> ServerPeer,
         player_idx |-> -1,
         connected |-> FALSE,
         server_time |-> 0,
         snapshots |-> <<>>,
         render_time |-> 0 - Millis(100),
         target_delay |-> Millis(100),
         current_delay |-> Millis(100),
         input_history |-> <<>>,
         input_sequence |-> 0,
         local_player |-> ValuePlayer,
         events |-> <<>>]

----------------------------------------------------------------------------
(* The client's runs: init and the loop of run_client on the main thread, the
   receive thread, and the server.  What the server sends is what the
   server's own code makes of the session: a scenario fixes whether another
   client joined first, whether that client has left since, how many of the
   client's inputs the server has seen, how far the server's clock is from
   the client's estimate, and the moves the player makes. *)

\* a handler starts with empty records of what it did
ClientBegin(c) == [c EXCEPT !.events = <<>>, !.net.socket_out = <<>>, !.net.cb_removed = <<>>]

\* a connect request of peer_id reaches the server: add_unrecognised, then
\* handle_connect_request
Admit(s, peer_id, spawn) ==
    handle_connect_request([s EXCEPT !.network = network_add_peer(@, peer_id)],
                           peer_id, spawn)

\* the server once the client (its peer 1) has joined, after peer 2 if
\* another client was earlier
Session(earlier, spawn) ==
    LET s == run_server(<<>>)
    IN  Admit(IF earlier THEN Admit(s, 2, spawn) ELSE s, 1, spawn)

\* handle_client_input for the inputs of history numbered up to seen
RECURSIVE FeedInputs(_, _, _, _)
FeedInputs(s, player_idx, history, seen) ==
    IF history = <<>> THEN s
    ELSE IF Head(history).sequence_num <= seen
    THEN FeedInputs(handle_client_input(s, player_idx, Head(history)),
                    player_idx, Tail(history), seen)
    ELSE FeedInputs(s, player_idx, Tail(history), seen)

\* the server after the inputs up to seen: the other client removed if it is
\* gone, the inputs buffered, one tick
Served(s, gone, history, seen) ==
    LET left == IF gone THEN remove_client(s, 2) ELSE s
    IN  tick(FeedInputs(left, find_player_index_for_peer(left, 1), history, seen))

\* the snapshot broadcast_snapshot sends to the client, stamped with the
\* server's clock in the client's counts
SnapshotFor(s, stamp) ==
    LET out == broadcast_snapshot(Begin(s)).network.socket_out
        mine == SelectSeq(out, LAMBDA d : d.to = 1)
    IN  [mine[1].packet.payload EXCEPT !.server_time = stamp]

\* the payloads the server can send next; it sends to the client only once
\* the client's CONNECT_REQUEST has reached it
ServerPayloads ==
    LET s == Session(cfg.earlier, cfg.spawn)
        last == CLIENT.input_sequence - 1
    IN  IF app.wire # "heard" THEN {}
        ELSE {make_connect_accept(t, find_player_index_for_peer(s, 1)) :
                t \in IF app.accepted THEN {} ELSE cfg.accept_times}
             \cup {SnapshotFor(Served(s, gone, CLIENT.input_history, last - lag),
                               CLIENT.server_time + off) :
                     gone \in {g \in cfg.gone : g => cfg.earlier},
                     lag \in {l \in cfg.lags : last - l >= -1},
                     off \in {o \in cfg.offsets : CLIENT.server_time + o >= 0}}

\* the datagram udp_receive hands to the receive thread: the server numbers
\* its packets and acknowledges everything the client has sent
ServerDatagram(payload) ==
    LET peer == CLIENT.net.peers[ServerPeer]
        ack == IF peer.present THEN peer.local_sequence ELSE 0
        reliable == payload.type = MSG_CONNECT_ACCEPT
    IN  [from |-> ServerPeer,
         bytes |-> HEADER_SIZE + (IF reliable THEN SIZEOF_ConnectAccept
                                              ELSE SIZEOF_SnapshotMessage),
         packet |-> Packet(app.sent + 1, ack,
                           {k \in 0..(ACK_BITS - 1) : ack - (k + 1) >= 1},
                           reliable, payload)]

\* the receive thread takes one datagram off the socket
ClientReceive ==
    /\ th.pc \in {"init", "adjust", "update"}
    /\ budget.recvs > 0
    /\ \E payload \in ServerPayloads :
        /\ CLIENT' = [CLIENT EXCEPT !.net = receive_thread_func(@, ServerDatagram(payload))]
        /\ app' = [app EXCEPT !.sent = @ + 1,
                              !.accepted = @ \/ payload.type = MSG_CONNECT_ACCEPT]
    /\ budget' = [budget EXCEPT !.recvs = @ - 1]
    /\ UNCHANGED <<SERVER, net, cfg, qs, th>>

\* the CONNECT_REQUEST datagrams a handler of the client put on the socket
Requests(c) ==
    SelectSeq(c.net.socket_out,
              LAMBDA d : d.packet.payload = ConnectRequest)

\* init: one pass of the loop that waits for CLIENT.connected, with the time
\* the pass takes; init gives up after 5 s.  A CONNECT_REQUEST the pass sends
\* is on the wire again
ClientWait ==
    /\ th.pc = "init"
    /\ \E c \in client_process_packets(ClientBegin(CLIENT)) :
        /\ CLIENT' = c
        /\ app' = [app EXCEPT !.wire = IF @ = "lost" /\ Requests(c) # <<>>
                                       THEN "flying" ELSE @]
        /\ IF c.connected THEN th' = [th EXCEPT !.pc = "adjust"]
           ELSE IF th.waited > 5000 THEN th' = [th EXCEPT !.pc = "failed"]
           ELSE \E nap \in cfg.naps : th' = [th EXCEPT !.waited = @ + nap]
    /\ UNCHANGED <<SERVER, net, cfg, budget, qs>>

\* run_client: NETWORK_UPDATE_TIMER is 0, so every frame starts with
\* update_render_time() and network_update(adjustment_timer = TICK_TIME)
ClientAdjust ==
    /\ th.pc = "adjust"
    /\ budget.frames > 0
    /\ CLIENT' = [update_render_time(ClientBegin(CLIENT)) EXCEPT
                    !.net = network_update(@, 1000 \div TICK_RATE)]
    /\ th' = [th EXCEPT !.pc = "update"]
    /\ UNCHANGED <<SERVER, net, app, cfg, budget, qs>>

\* run_client: update(TICK_TIME)
ClientUpdate ==
    /\ th.pc = "update"
    /\ \E move \in cfg.moves :
       \E c \in update(ClientBegin(CLIENT), TICK_TIME, move, FALSE) :
          CLIENT' = c
    /\ th' = [th EXCEPT !.pc = "adjust"]
    /\ budget' = [budget EXCEPT !.frames = @ - 1]
    /\ UNCHANGED <<SERVER, net, app, cfg, qs>>

ClientInitOf(scenarios) ==
    /\ cfg \in scenarios
    /\ CLIENT = init
    /\ SERVER = <<>>
    /\ th = [pc |-> "init", waited |-> 0]
    /\ app = [sent |-> 0, accepted |-> FALSE, wire |-> "heard"]
    /\ budget = [recvs |-> cfg.recvs, frames |-> cfg.frames]
    /\ net = <<>>
    /\ qs = <<>>

ClientNext ==
    \/ ClientReceive
    \/ ClientWait
    \/ ClientAdjust
    \/ ClientUpdate

----------------------------------------------------------------------------
(* Scenarios of the client *)

\* the client alone on the server; the server is up to one input behind
Solo ==
    [earlier |-> FALSE, gone |-> {FALSE}, spawn |-> SpawnAt(<<Position(3, 0), Position(0, 3)>>),
     accept_times |-> {Millis(2000)}, lags |-> {0, 1}, offsets |-> {0},
     moves |-> {Position(1, 0), Position(2, 0)}, naps |-> {2500},
     recvs |-> SoloRecvs, frames |-> SoloFrames]

\* another client joined first and may have left: the client has slot 1
Later ==
    [earlier |-> TRUE, gone |-> {FALSE, TRUE}, spawn |-> SpawnAt(<<Position(3, 0), Position(0, 3)>>),
     accept_times |-> {Millis(2000)}, lags |-> {0}, offsets |-> {0},
     moves |-> {Position(1, 0)}, naps |-> {2500},
     recvs |-> LaterRecvs, frames |-> LaterFrames]

\* the server's clock is ahead of or behind the client's estimate, and the
\* snapshots arrive in any order of their stamps
Drift ==
    [earlier |-> FALSE, gone |-> {FALSE}, spawn |-> SpawnAt(<<Position(3, 0)>>),
     accept_times |-> {Millis(2000)},
     lags |-> {0}, offsets |-> {0 - Millis(200), Millis(100), Millis(200)},
     moves |-> {Position(1, 0)}, naps |-> {2500},
     recvs |-> DriftRecvs, frames |-> DriftFrames]

\* snapshots stop coming, or the clock starts behind: the interpolation
\* delay is adjusted frame after frame
Starved ==
    [earlier |-> FALSE, gone |-> {FALSE}, spawn |-> SpawnAt(<<Position(3, 0)>>),
     accept_times |-> {0, Millis(500), Millis(2000)}, lags |-> {0}, offsets |-> {0},
     moves |-> {Position(1, 0)}, naps |-> {2500},
     recvs |-> StarvedRecvs, frames |-> StarvedFrames]

ClientScenarios == {Solo, Later, Drift, Starved}

ClientInit == ClientInitOf(ClientScenarios)

ClientSpec == ClientInit /\ [][ClientNext]_vars

----------------------------------------------------------------------------
(* C21: reconciliation in process_snapshot *)

\* the snapshots the last handler processed
SnapshotsSeen == SelectSeq(CLIENT.events, LAMBDA e : e.ev = "snapshot")

\* the entries of a snapshot that carry the index the client was given
EntriesOf(e) ==
    {i \in 1..Len(e.snapshot.players) : e.snapshot.players[i].player_idx = e.player_idx}

\* the inputs of the history numbered above last, applied in order to base
RECURSIVE Reapplied(_, _, _)
Reapplied(base, history, last) ==
    IF history = <<>> THEN base
    ELSE IF Head(history).sequence_num > last
    THEN Reapplied(apply_player_input(base, Head(history)), Tail(history), last)
    ELSE Reapplied(base, Tail(history), last)

\* the player the server holds for the client once it has applied every input
\* of the history
ServerPlayer(history) ==
    LET s == Session(cfg.earlier, cfg.spawn)
        all == IF history = <<>> THEN -1 ELSE history[Len(history)].sequence_num
        served == Served(s, FALSE, history, all)
    IN  served.frame.players[find_player_index_for_peer(served, 1)]

\* the local player is the state find_local pointed to with the inputs above
\* its last_processed_seq re-applied in order
C21_ReplayedFromBase ==
    \A k \in 1..Len(SnapshotsSeen) :
        LET e == SnapshotsSeen[k]
        IN  ~e.local.null =>
              e.local_player = Reapplied(e.local.player, e.input_history,
                                         e.local.player.last_processed_seq)

\* C21: after process_snapshot the local player is the snapshot's entry for
\* the local player with exactly the inputs of the history above that entry's
\* last_processed_seq re-applied in order, and its position is the position
\* the server computes for the same inputs
C21_Reconciled ==
    \A k \in 1..Len(SnapshotsSeen) :
        LET e == SnapshotsSeen[k]
        IN  e.player_idx >= 0 =>
              /\ \A i \in EntriesOf(e) :
                    LET entry == e.snapshot.players[i]
                    IN  e.local_player = Reapplied(entry, e.input_history,
                                                   entry.last_processed_seq)
              /\ e.local_player.position = ServerPlayer(e.input_history).position

\* a snapshot reconciled against an entry with inputs still to replay
C21_ReplaySeen ==
    \E k \in 1..Len(SnapshotsSeen) :
        LET e == SnapshotsSeen[k]
        IN  /\ e.player_idx >= 0
            /\ EntriesOf(e) # {}
            /\ Len(e.replayed) >= 1
            /\ Len(e.replayed) < Len(e.input_history)

----------------------------------------------------------------------------
(* C22: the rings of timestamps.  The server's and the client's runs, side
   by side. *)

GameInit == ServerInit \/ ClientInit

GameNext == ServerNext \/ ClientNext

GameSpec == GameInit /\ [][GameNext]_vars

\* the stamps of a ring, oldest first, never go down
NonDecreasing(ring) ==
    \A i \in 1..(Len(ring) - 1) : ring[i].timestamp <= ring[i + 1].timestamp

C22_RingWrapped ==
    /\ SERVER # <<>>
    /\ Len(SERVER.history) = HISTORY_SIZE
    /\ SERVER.history[1].timestamp > 1

----------------------------------------------------------------------------
(* C23: the clock correction in process_snapshot *)

\* no snapshot changes the client's estimate of the server's time
C23_EstimateKept ==
    \A k \in 1..Len(SnapshotsSeen) :
        SnapshotsSeen[k].server_time = SnapshotsSeen[k].estimate

\* C23: a snapshot whose stamp differs from the client's estimate by more
\* than 100 ms sets the estimate to the stamp, any other snapshot leaves the
\* estimate unchanged
C23_TimeSync ==
    \A k \in 1..Len(SnapshotsSeen) :
        LET e == SnapshotsSeen[k]
        IN  IF Abs(e.msg.server_time - e.estimate) > TIME_SYNC_LARGE_CORRECTION
            THEN e.server_time = e.msg.server_time
            ELSE e.server_time = e.estimate

\* a snapshot stamped more than 100 ms away from the estimate was processed
C23_FarStampSeen ==
    \E k \in 1..Len(SnapshotsSeen) :
        LET e == SnapshotsSeen[k]
        IN  /\ CLIENT.connected
            /\ Abs(e.msg.server_time - e.estimate) > TIME_SYNC_LARGE_CORRECTION

----------------------------------------------------------------------------
(* C24: a reliable send refused because the window is full *)

\* the test of network_send on the peer's window, for the next sequence number
WindowFull(peer) ==
    LET diff == CALCULATE_SEQUENCE_OFFSET(U16(peer.local_sequence + 1), peer.window_start)
    IN  diff < 0 \/ diff >= WINDOW_SIZE

\* the step is a reliable send that reaches the window test and fails it
RefusedSend ==
    /\ app'.last.op = "send"
    /\ app'.last.reliable
    /\ net.peers[app'.last.id].present
    /\ QueueLen(net.free_indices, PACKET_POOL_SIZE) > 0
    /\ WindowFull(net.peers[app'.last.id])

\* a refused send transmits nothing, buffers nothing, and leaves the peer and
\* the number of free buffers as they were
C24_NothingSent ==
    [][RefusedSend =>
          /\ net'.socket_out = <<>>
          /\ net'.packet_pool = net.packet_pool
          /\ net'.peers = net.peers
          /\ QueueLen(net'.free_indices, PACKET_POOL_SIZE)
                = QueueLen(net.free_indices, PACKET_POOL_SIZE)]_vars

\* C24: a reliable send refused because the window is full is reported to
\* the caller, transmits and buffers nothing, and leaves local_sequence,
\* window_mask, window_start and the number of free buffers unchanged
C24_RefusalReported ==
    [][RefusedSend =>
          /\ app'.last.returned # "void"
          /\ net'.socket_out = <<>>
          /\ net'.packet_pool = net.packet_pool
          /\ net'.peers[app'.last.id].local_sequence = net.peers[app'.last.id].local_sequence
          /\ net'.peers[app'.last.id].window_mask = net.peers[app'.last.id].window_mask
          /\ net'.peers[app'.last.id].window_start = net.peers[app'.last.id].window_start
          /\ QueueLen(net'.free_indices, PACKET_POOL_SIZE)
                = QueueLen(net.free_indices, PACKET_POOL_SIZE)]_vars

\* a reliable send has just been refused by the window test
C24_RefusalSeen ==
    /\ app.last.op = "send"
    /\ app.last.reliable
    /\ net.peers[app.last.id].present
    /\ WindowFull(net.peers[app.last.id])
    /\ net.socket_out = <<>>

----------------------------------------------------------------------------
(* C25: packets from senders that are not in the peer table *)

\* what a poll did with the descriptors whose sender was not a peer
C25_PollStep ==
    app'.last.op = "poll" =>
        \A i \in DOMAIN app'.last.log :
            LET e == app'.last.log[i]
                peer == net'.peers[e.from]
            IN  ~e.known =>
                  /\ ~net.peers[e.from].present
                  /\ IF net.on_unrecognised
                     THEN /\ peer.present
                          /\ peer.last_seen_time = net.current_time
                          /\ e.is_new = (CALCULATE_SEQUENCE_OFFSET(e.header.sequence, 0) > 0)
                          /\ e.is_new =>
                                /\ i = Len(app'.last.log)
                                /\ app'.last.ok
                                /\ e.buffer_index \in app'.held
                                /\ peer.remote_sequence = e.header.sequence
                          /\ ~e.is_new => e.buffer_index \in FreeBuffers(net')
                     ELSE /\ ~e.is_new
                          /\ e.buffer_index \in FreeBuffers(net')
                          /\ e.buffer_index \notin app'.held
                          /\ Present(net') = Present(net)

\* C25: network_poll surfaces a packet of an unknown sender only if the
\* on_unrecognised policy accepts it: the server adds the sender as a peer and
\* processes the packet as a peer's packet, the client drops it, returns its
\* buffer to the free queue and leaves the peer table unchanged
C25_UnknownSender == [][C25_PollStep]_vars

\* the server has just polled the first packet of a sender it did not know
C25_Witness ==
    /\ app.last.op = "poll"
    /\ net.on_unrecognised
    /\ app.last.ok
    /\ \E i \in DOMAIN app.last.log :
        /\ ~app.last.log[i].known
        /\ app.last.log[i].is_new
        /\ net.peers[app.last.log[i].from].present

\* a client has just dropped a packet of a sender that is not its peer
C25_DropSeen ==
    /\ app.last.op = "poll"
    /\ ~net.on_unrecognised
    /\ \E i \in DOMAIN app.last.log :
        /\ ~app.last.log[i].known
        /\ ~net.peers[app.last.log[i].from].present
        /\ app.last.log[i].buffer_index \in FreeBuffers(net)

----------------------------------------------------------------------------
(* C26: payloads shorter than their message type *)

\* sizeof the message struct a payload of this type is read as
SizeOfType(type) ==
    IF type = MSG_CONNECT_REQUEST THEN SIZEOF_ConnectRequest
    ELSE IF type = MSG_CLIENT_INPUT THEN SIZEOF_InputMessage
    ELSE IF type = MSG_CONNECT_ACCEPT THEN SIZEOF_ConnectAccept
    ELSE IF type = MSG_PLAYER_LEFT THEN SIZEOF_PlayerLeftEvent
    ELSE IF type = MSG_PLAYER_DIED THEN SIZEOF_PlayerKilledEvent
    ELSE SIZEOF_SnapshotMessage

\* the packets the last server_process_packets polled that are too short
ShortPolled(events) ==
    SelectSeq(events, LAMBDA e : e.ev = "polled" /\ e.size < SizeOfType(e.type))

\* the game state of the server
GameState(s) ==
    [frame |-> s.frame, clients |-> s.clients, dead_players |-> s.dead_players,
     new_shots |-> s.new_shots, history |-> s.history]

\* server_process_packets empties the receive queue and loses no buffer: what
\* left the queue is free again or holds a reliable packet in a send window
C26_BuffersReturned ==
    [][ProcessPacketsStep =>
          /\ QueueLen(SERVER'.network.recv_queue, PACKET_POOL_SIZE) = 0
          /\ Holdings(SERVER'.network, {}) = Holdings(SERVER.network, {})]_vars

\* a ConnectRequest of one byte was polled, given a player slot and answered
\* with a ConnectAccept
C26_ShortRequestServed ==
    /\ \E i \in DOMAIN SERVER.events :
          /\ SERVER.events[i].ev = "polled"
          /\ SERVER.events[i].type = MSG_CONNECT_REQUEST
          /\ SERVER.events[i].size < SIZEOF_ConnectRequest
    /\ \E i \in Slots : SERVER.clients[i].peer_id # 0
    /\ \E i \in DOMAIN SERVER.network.socket_out :
          SERVER.network.socket_out[i].packet.payload.type = MSG_CONNECT_ACCEPT

\* C26: a received packet whose payload is smaller than its message type
\* requires is dropped: its buffer goes back to the pool and the game state
\* does not change
C26_MalformedDropped ==
    [][(/\ ProcessPacketsStep
        /\ ShortPolled(SERVER'.events) # <<>>
        /\ Len(ShortPolled(SERVER'.events)) = Len(EventsOf(SERVER'.events, "polled")))
       => /\ GameState(SERVER') = GameState(SERVER)
          /\ SERVER'.network.socket_out = <<>>
          /\ QueueLen(SERVER'.network.free_indices, PACKET_POOL_SIZE)
               = QueueLen(SERVER.network.free_indices, PACKET_POOL_SIZE)
                 + QueueLen(SERVER.network.recv_queue, PACKET_POOL_SIZE)]_vars

----------------------------------------------------------------------------
(* part_000: network_shutdown, with the receive thread running beside it *)

\* the receive thread finds running false at the top of its loop and returns
RecvExit ==
    /\ th.recv.pc = "top"
    /\ ~LoopCondition(net)
    /\ th' = [th EXCEPT !.recv.pc = "exited"]
    /\ UNCHANGED <<CLIENT, SERVER, net, app, cfg, budget, qs>>

\* network_shutdown up to recv_thread.join(): it returns at once when running
\* is already false, and stores false otherwise
ShutdownCall ==
    /\ MainIdle
    /\ budget.shutdowns > 0
    /\ budget' = [budget EXCEPT !.shutdowns = @ - 1]
    /\ IF ~net.running
       THEN /\ app' = [app EXCEPT !.last = [op |-> "shutdown", returned_early |-> TRUE,
                                          recv_pc |-> th.recv.pc]]
            /\ UNCHANGED <<net, th>>
       ELSE /\ net' = [net EXCEPT !.running = FALSE]
            /\ th' = [th EXCEPT !.main.pc = "join"]
            /\ app' = [app EXCEPT !.last = [op |-> "shutdown", returned_early |-> FALSE,
                                          recv_pc |-> th.recv.pc]]
    /\ UNCHANGED <<CLIENT, SERVER, cfg, qs>>

\* recv_thread.join() returns once the thread function has returned
ShutdownJoin ==
    /\ th.main.pc = "join"
    /\ th.recv.pc = "exited"
    /\ th' = [th EXCEPT !.main.pc = "close"]
    /\ UNCHANGED <<CLIENT, SERVER, net, app, cfg, budget, qs>>

\* udp_close(&net->socket), and network_shutdown returns
ShutdownClose ==
    /\ th.main.pc = "close"
    /\ th' = [th EXCEPT !.main.pc = "idle"]
    /\ app' = [app EXCEPT !.socket_open = FALSE]
    /\ UNCHANGED <<CLIENT, SERVER, net, cfg, budget, qs>>

\* the endpoint after the datagrams lo..hi arrived and the main thread polled
\* none of them; the range is split in halves as in InitFreeLoop
RECURSIVE FloodLoop(_, _, _)
FloodLoop(n, lo, hi) ==
    IF lo = hi
    THEN receive_thread_func(n, [from |-> 1, bytes |-> HEADER_SIZE + 1,
                                 packet |-> Packet(lo, 0, {}, TRUE, 0)])
    ELSE LET mid == (lo + hi) \div 2
             first == FloodLoop(n, lo, mid)
         IN  IF first = n THEN FloodLoop(n, mid + 1, hi)
             ELSE FloodLoop(first, mid + 1, hi)

Flood(n, k) == IF k = 0 THEN n ELSE FloodLoop(n, 1, k)

\* a client that is shut down while it sends and receives
Quiet ==
    [name |-> "quiet", server |-> FALSE, unpolled |-> 0,
     dests |-> {1}, senders |-> {1},
     rel_seqs |-> 1..StopSends, unrel_seqs |-> {},
     seqs |-> {1}, acks |-> {0}, ack_bits |-> {{}},
     sizes |-> {HEADER_SIZE + 1, 0 - 1}, arrive_at |-> 0..StopSends,
     dts |-> {},
     sends |-> StopSends, recvs |-> StopRecvs, updates |-> 0,
     adds |-> 1, settle |-> 0]

\* the same client, its server added as peer 1, when every pool buffer is in
\* the receive queue, unpolled: the receive thread finds no free index
Flooded == [Quiet EXCEPT !.name = "flooded", !.unpolled = PACKET_POOL_SIZE - 1, !.adds = 0]

StopInit ==
    /\ cfg \in {Quiet, Flooded}
    /\ net = IF cfg.unpolled = 0 THEN network_init(cfg.server)
             ELSE Flood(network_add_peer(network_init(cfg.server), 1), cfg.unpolled)
    /\ SERVER = <<>>
    /\ CLIENT = <<>>
    /\ app = [held |-> {}, copies |-> <<>>, acked |-> {}, arrived |-> <<>>,
              surfaced |-> <<>>, last |-> NoCall, socket_open |-> TRUE]
    /\ budget = [sends |-> cfg.sends, recvs |-> cfg.recvs, updates |-> cfg.updates,
                 adds |-> cfg.adds, shutdowns |-> StopCalls]
    /\ qs = <<>>
    /\ th = [recv |-> [pc |-> "top", buffer_idx |-> 0, call |-> NoCallLocals],
             main |-> [pc |-> "idle", id |-> 0, buffer_idx |-> 0, call |-> NoCallLocals]]

\* the main thread polls, at most StopPolls packets of a peer
StopPoll ==
    /\ MainIdle
    /\ \A id \in PeerIds :
          net.peers[id].present => net.peers[id].remote_sequence < StopPolls
    /\ Poll

\* the steps of the receive thread
RecvThread ==
    \/ RecvPopCall
    \/ RecvPopStep
    \/ RecvDatagram
    \/ RecvPushInfoStep
    \/ RecvPushFreeStep
    \/ RecvExit

StopNext ==
    \/ MainIdle /\ AddPeer
    \/ MainSendCall
    \/ MainSendPopStep
    \/ MainPushFreeStep
    \/ StopPoll
    \/ MainReleaseCall
    \/ ShutdownCall
    \/ ShutdownJoin
    \/ ShutdownClose
    \/ RecvPopCall
    \/ RecvPopStep
    \/ RecvDatagram
    \/ RecvPushInfoStep
    \/ RecvPushFreeStep
    \/ RecvExit

StopSpec == StopInit /\ [][StopNext]_vars

\* the scheduler runs the receive thread whenever it can take a step (the
\* socket has a receive timeout of 100 ms, the sleep on an empty queue ends),
\* and a main thread inside network_shutdown goes on to its next statement
FairStopSpec ==
    StopInit /\ [][StopNext]_vars /\ WF_vars(RecvThread)
             /\ WF_vars(ShutdownJoin \/ ShutdownClose)

----------------------------------------------------------------------------
(* C27: shutdown *)

\* a call of network_shutdown that finds running false
LaterShutdown == ShutdownCall /\ ~net.running

\* the call changes nothing of the endpoint and returns at once
C27_SecondCallNoOp ==
    [][LaterShutdown => /\ net' = net
                        /\ th' = th
                        /\ app'.socket_open = app.socket_open]_vars

\* C27: once network_shutdown has set running to false, the receive thread
\* leaves its loop from wherever it is, the join returns and the socket is
\* closed; a further call of network_shutdown does nothing
C27_ShutdownTerminates ==
    /\ (~net.running) ~> (th.recv.pc = "exited")
    /\ (th.main.pc = "join") ~> (th.main.pc = "idle" /\ ~app.socket_open)
    /\ C27_SecondCallNoOp

\* running was set to false while the receive thread was waiting on an empty
\* free-index queue; the thread has left its loop and the socket is closed
C27_Witness ==
    /\ cfg.name = "flooded"
    /\ QueueLen(net.free_indices, PACKET_POOL_SIZE) = 0
    /\ budget.recvs < StopRecvs
    /\ app.last.op = "shutdown"
    /\ ~app.last.returned_early
    /\ app.last.recv_pc \in {"top", "pop"}
    /\ th.recv.pc = "exited"
    /\ th.main.pc = "idle"
    /\ ~app.socket_open

\* running was set to false while the receive thread was inside udp_receive;
\* the thread has left its loop and the socket is closed
C27_ReceiveSeen ==
    /\ app.last.op = "shutdown"
    /\ app.last.recv_pc = "receive"
    /\ th.recv.pc = "exited"
    /\ ~app.socket_open

\* network_shutdown was called again after it had closed the socket
C27_SecondCallSeen ==
    /\ app.last.op = "shutdown"
    /\ app.last.returned_early
    /\ ~app.socket_open

----------------------------------------------------------------------------
(* is_new_packet on its own: a peer whose remote_sequence is anywhere in the
   16-bit range, and packets at chosen distances from it *)

\* values of remote_sequence, on both sides of the wraparound and of the
\* sign change of int16_t
WrapStarts == {0, 1, 32767, 32768, 33536, 65504, 65534, 65535}

\* distances of the arriving packet's sequence number from remote_sequence:
\* up to 32000, and beyond
WrapOffsets ==
    {0, 1, 2, 31, 32, 33, 1000, 31999, 32000, 32767, 32768, 40000, 65504, 65505, 65534,
     65535}

\* what the ack bitfield holds when the packet arrives
WrapBits == {{}, {0}, {0, 31}}

WrapInit ==
    /\ \E s \in WrapStarts, bits \in WrapBits :
          app = [peer |-> [NewPeer(1, 0) EXCEPT !.remote_sequence = s,
                                                !.remote_ack_bits = bits],
                 before |-> NewPeer(1, 0), d |-> 0, sequence |-> 0, is_new |-> FALSE,
                 arrived |-> 0]
    /\ budget = [arrivals |-> WrapArrivals]
    /\ cfg = [name |-> "wrap"]
    /\ net = <<>>
    /\ qs = <<>>
    /\ th = <<>>
    /\ SERVER = <<>>
    /\ CLIENT = <<>>

\* a packet whose sequence number is d past remote_sequence (mod 2^16) goes
\* through is_new_packet
WrapArrive ==
    /\ budget.arrivals > 0
    /\ \E d \in WrapOffsets :
        LET sequence == (app.peer.remote_sequence + d) % 65536
        IN  \E o \in is_new_packet(sequence, app.peer) :
              app' = [peer |-> o.peer, before |-> app.peer, d |-> d,
                      sequence |-> sequence, is_new |-> o.is_new,
                      arrived |-> app.arrived + 1]
    /\ budget' = [budget EXCEPT !.arrivals = @ - 1]
    /\ UNCHANGED <<CLIENT, SERVER, net, cfg, qs, th>>

WrapNext == WrapArrive

WrapSpec == WrapInit /\ [][WrapNext]_vars

----------------------------------------------------------------------------
(* C28: sequence numbers across the wraparound *)

\* C28: a packet whose sequence number is d past remote_sequence, for
\* 1 <= d <= 32000 and modulo 2^16, is classified as new and remote_sequence
\* becomes its sequence number
C28_NewerAcrossWrap ==
    (app.arrived > 0 /\ app.d >= 1 /\ app.d <= 32000)
        => /\ app.is_new
           /\ app.peer.remote_sequence = (app.before.remote_sequence + app.d) % 65536

\* a packet with a smaller sequence number was classified as new after the
\* sequence numbers wrapped from 65535 to 0
C28_Witness ==
    /\ app.arrived > 0
    /\ app.d >= 1 /\ app.d <= 32000
    /\ app.sequence < app.before.remote_sequence
    /\ app.is_new
    /\ app.peer.remote_sequence = app.sequence

\* the largest distance of the claim, from the largest sequence number
C28_FarthestSeen ==
    /\ app.arrived > 0
    /\ app.d = 32000
    /\ app.before.remote_sequence = 65535
    /\ app.is_new
    /\ app.peer.remote_sequence = 31999

\* the classification at distances the claim does not cover: newer up to
\* 32767; a duplicate at 0 and too old from 32768 to 65504 (the 31 distances
\* above that are late packets the ack bitfield still covers)
C28_Beyond ==
    (app.arrived > 0 /\ (app.d = 0 \/ app.d > 32000) /\ app.d <= 65504)
        => (app.is_new <=> (app.d >= 1 /\ app.d <= 32767))

----------------------------------------------------------------------------
(* C29: the interpolation delay *)

\* a call of update_render_time (run_client makes it once per frame)
AdjustStep == th.pc = "adjust" /\ th'.pc = "update"

\* newest_time - CLIENT.render_time, as update_render_time computes it
FutureBuffer(c) == c.snapshots[Len(c.snapshots)].timestamp - c.render_time

\* C29: target_delay starts at 0.1 s and stays within [0.02 s, 0.15 s]; only
\* update_render_time changes it, by at most 0.01 s a call, upwards only when
\* future_buffer < 0.02 s and downwards only when future_buffer > 0.15 s
C29_TargetDelay ==
    /\ CLIENT.target_delay = Millis(100)
    /\ [](CLIENT.target_delay >= Millis(20) /\ CLIENT.target_delay <= Millis(150))
    /\ [][/\ Abs(CLIENT'.target_delay - CLIENT.target_delay) <= Millis(10)
          /\ CLIENT'.target_delay # CLIENT.target_delay
               => AdjustStep /\ Len(CLIENT.snapshots) >= 2
          /\ CLIENT'.target_delay > CLIENT.target_delay
               => FutureBuffer(CLIENT) < Millis(20)
          /\ CLIENT'.target_delay < CLIENT.target_delay
               => FutureBuffer(CLIENT) > Millis(150)]_vars

\* the delay has been raised call after call up to 0.15 s, and a further call
\* with too little future buffered has left it there
C29_Witness ==
    /\ th.pc = "update"
    /\ Len(CLIENT.snapshots) >= 2
    /\ FutureBuffer(CLIENT) < Millis(20)
    /\ CLIENT.target_delay = Millis(150)
    /\ CLIENT.current_delay < Millis(150)

\* the delay has been lowered below its initial value
C29_LoweredSeen ==
    /\ Len(CLIENT.snapshots) >= 2
    /\ CLIENT.target_delay < Millis(100)

----------------------------------------------------------------------------
(* C30: unreliable sends *)

\* the step is a call of network_send for a peer in the table
SendStep ==
    /\ budget'.sends = budget.sends - 1
    /\ app'.last.op = "send"
    /\ net.peers[app'.last.id].present

\* the header network_send writes for the peer as it is before the call
HeaderFor(peer, reliable) ==
    [sequence |-> (peer.local_sequence + 1) % 65536,
     ack |-> peer.remote_sequence,
     ack_bits |-> peer.remote_ack_bits,
     reliable |-> reliable]

HeaderOf(packet) ==
    [sequence |-> packet.sequence, ack |-> packet.ack, ack_bits |-> packet.ack_bits,
     reliable |-> packet.reliable]

\* a reliable send that is accepted puts one datagram on the socket, its
\* header filled from the peer
C30_ReliableHeader ==
    [][(SendStep /\ app'.last.reliable /\ net'.socket_out # <<>>) =>
          /\ Len(net'.socket_out) = 1
          /\ HeaderOf(net'.socket_out[1].packet)
               = HeaderFor(net.peers[app'.last.id], TRUE)]_vars

\* C30: an unreliable send puts one datagram on the socket whose header holds
\* the next sequence number and the peer's current ack and ack_bits, takes no
\* pool buffer, and changes nothing of the peer but local_sequence
C30_UnreliableSend ==
    [][(SendStep /\ ~app'.last.reliable) =>
          LET id == app'.last.id
              peer == net.peers[id]
          IN  /\ Len(net'.socket_out) = 1
              /\ net'.socket_out[1].to = peer.address
              /\ ~net'.socket_out[1].retransmit
              /\ HeaderOf(net'.socket_out[1].packet) = HeaderFor(peer, FALSE)
              /\ net'.free_indices = net.free_indices
              /\ net'.packet_pool = net.packet_pool
              /\ net'.recv_queue = net.recv_queue
              /\ net'.peers = [net.peers EXCEPT
                                 ![id].local_sequence = (peer.local_sequence + 1) % 65536]]_vars

\* an unreliable packet has just been sent to a peer that has a reliable
\* packet pending in its window and has received packets from it
C30_Witness ==
    /\ app.last.op = "send"
    /\ ~app.last.reliable
    /\ Len(net.socket_out) = 1
    /\ ~net.socket_out[1].packet.reliable
    /\ net.socket_out[1].packet.ack > 0
    /\ net.peers[app.last.id].window_mask # {}

----------------------------------------------------------------------------
(* C31: what the receive bitmask and the ack field stand for *)

\* a packet of the peer with this sequence number went through is_new_packet
ReceivedFrom(id, sequence) == BagCount(app.arrived, <<id, sequence>>) > 0

\* the sequence numbers a peer's remote_ack_bits say were received
BitSeqs(peer) == {U16(peer.remote_sequence - (k + 1)) : k \in peer.remote_ack_bits}

\* every set bit of a bitmask stands for a packet that was received, or for
\* sequence number 0 of a peer whose numbering has not wrapped (the value
\* remote_sequence starts with), as long as no forward jump of exactly 32 was
\* made over a non-empty bitmask
C31_BitsButInitial ==
    \A id \in PeerIds :
        (net.peers[id].present /\ cfg.name # "receiver")
            => \A q \in BitSeqs(net.peers[id]) : q = 0 \/ ReceivedFrom(id, q)

\* C31: a set bit k of remote_ack_bits stands for a received packet with
\* sequence remote_sequence - (k + 1), and the ack of every outgoing header
\* names a received sequence
C31_AcksAreReceipts ==
    /\ \A id \in PeerIds :
          net.peers[id].present
              => \A q \in BitSeqs(net.peers[id]) : ReceivedFrom(id, q)
    /\ \A i \in DOMAIN net.socket_out :
          (~net.socket_out[i].retransmit /\ net.peers[net.socket_out[i].to].present)
              => ReceivedFrom(net.socket_out[i].to, net.socket_out[i].packet.ack)

\* a header went out with ack 0 to a peer nothing was received from
C31_PhantomAckSeen ==
    \E i \in DOMAIN net.socket_out :
        LET d == net.socket_out[i]
        IN  /\ ~d.retransmit
            /\ d.packet.ack = 0
            /\ net.peers[d.to].present
            /\ \A q \in 0..(SEQ_MOD - 1) : ~ReceivedFrom(d.to, q)

\* the first packet of a peer set a bit for sequence 0
C31_PhantomBitSeen ==
    \E id \in PeerIds :
        /\ net.peers[id].present
        /\ net.peers[id].remote_sequence = 1
        /\ net.peers[id].remote_ack_bits = {0}
        /\ ~ReceivedFrom(id, 0)

\* after a forward jump of exactly 32 a bit stands for a packet that was not
\* received and is not the initial 0
C31_StaleBitSeen ==
    \E id \in PeerIds :
        /\ net.peers[id].present
        /\ \E q \in BitSeqs(net.peers[id]) : q # 0 /\ ~ReceivedFrom(id, q)

----------------------------------------------------------------------------
(* C32: the classification of is_new_packet *)

\* the distance of the packet that arrived, as a signed 16-bit number
SignedDistance == IF app.d < 32768 THEN app.d ELSE app.d - 65536

\* a 32-bit mask shifted left by n
ShiftedLeft(bits, n) == {k + n : k \in {j \in bits : j + n < 32}}

\* what the classification is to leave behind, by cases on the distance
Classified(before, sequence, diff) ==
    IF diff > 0 /\ diff <= 32
    THEN [is_new |-> TRUE,
          peer |-> [before EXCEPT !.remote_ack_bits = ShiftedLeft(@, diff) \cup {diff - 1},
                                  !.remote_sequence = sequence]]
    ELSE IF diff > 32
    THEN [is_new |-> TRUE,
          peer |-> [before EXCEPT !.remote_ack_bits = {}, !.remote_sequence = sequence]]
    ELSE IF diff = 0 \/ (0 - diff) >= 32
    THEN [is_new |-> FALSE, peer |-> before]
    ELSE [is_new |-> (0 - diff) - 1 \notin before.remote_ack_bits,
          peer |-> [before EXCEPT !.remote_ack_bits = @ \cup {(0 - diff) - 1}]]

\* the classification is as described for every distance but a forward jump
\* of exactly 32 over a non-empty bitmask; such a jump is accepted, sets bit
\* 31 and moves remote_sequence
C32_ExceptJump32 ==
    app.arrived > 0 =>
        IF SignedDistance = 32 /\ app.before.remote_ack_bits # {}
        THEN /\ app.is_new
             /\ app.peer.remote_sequence = app.sequence
             /\ 31 \in app.peer.remote_ack_bits
        ELSE [is_new |-> app.is_new, peer |-> app.peer]
                = Classified(app.before, app.sequence, SignedDistance)

\* C32: is_new_packet shifts the bitmask by diff, sets bit diff-1 and accepts
\* for 0 < diff <= 32, clears the bitmask and accepts for diff > 32, drops for
\* diff = 0 and for -diff >= 32, and otherwise accepts iff bit -diff-1 was
\* clear and sets it; remote_sequence changes only in the two newer cases
C32_Classification ==
    app.arrived > 0 =>
        [is_new |-> app.is_new, peer |-> app.peer]
            = Classified(app.before, app.sequence, SignedDistance)

\* a forward jump of exactly 32 left bits of the old bitmask in place
C32_UnshiftedSeen ==
    /\ app.arrived > 0
    /\ SignedDistance = 32
    /\ app.is_new
    /\ app.before.remote_ack_bits # {}
    /\ app.peer.remote_ack_bits = app.before.remote_ack_bits \cup {31}

\* a late packet within the bitmask was accepted and its bit set
C32_LateSeen ==
    /\ app.arrived > 0
    /\ SignedDistance = 0 - 31
    /\ app.is_new
    /\ 30 \in app.peer.remote_ack_bits
    /\ app.peer.remote_sequence = app.before.remote_sequence

----------------------------------------------------------------------------
(* C33: the window test and unreliable packets *)

\* the reliable packets of a peer that are not acknowledged yet
Unacked(peer) == Cardinality(peer.window_mask)

\* the step is a reliable send to a peer with fewer than WINDOW_SIZE
\* unacknowledged reliable packets, made while a pool buffer is free
RoomySend ==
    /\ SendStep
    /\ app'.last.reliable
    /\ Unacked(net.peers[app'.last.id]) < WINDOW_SIZE
    /\ QueueLen(net.free_indices, PACKET_POOL_SIZE) > 0

\* the send was accepted: the packet is on the socket and in the window
Accepted(id) ==
    /\ Len(net'.socket_out) = 1
    /\ net'.socket_out[1].packet.reliable
    /\ net'.peers[id].local_sequence = U16(net.peers[id].local_sequence + 1)
    /\ MAP_SEQUENCE_TO_WINDOW_SLOT(net'.peers[id].local_sequence) \in net'.peers[id].window_mask

\* a reliable send is accepted whenever the next sequence number is less than
\* WINDOW_SIZE past window_start, and refused otherwise
C33_AcceptedWithinSpan ==
    [][(SendStep /\ app'.last.reliable
          /\ QueueLen(net.free_indices, PACKET_POOL_SIZE) > 0)
       => (Accepted(app'.last.id) <=> ~WindowFull(net.peers[app'.last.id]))]_vars

\* C33: a reliable send to a peer with fewer than 32 unacknowledged reliable
\* packets is accepted when a pool buffer is free, however many unreliable
\* packets were sent to the peer meanwhile
C33_AcceptedWhenRoom ==
    [][RoomySend => Accepted(app'.last.id)]_vars

\* a reliable send was refused although at most one reliable packet of the
\* peer was unacknowledged
C33_RefusedSeen ==
    /\ app.last.op = "send"
    /\ app.last.reliable
    /\ net.socket_out = <<>>
    /\ \E id \in PeerIds :
          /\ id = app.last.id
          /\ net.peers[id].present
          /\ Unacked(net.peers[id]) <= 1
          /\ net.peers[id].local_sequence >= WINDOW_SIZE

----------------------------------------------------------------------------
(* C34: shots and respawns, and the players they touch *)

RespawnsOf(events) == SelectSeq(events, LAMBDA e : e.ev = "respawn")

\* the entries of the respawn queue for slot i
QueuedFor(s, i) == SelectSeq(s.dead_players, LAMBDA r : r.player_index = i)

\* a shot that hits a living player of an active slot takes 10 off its health
C34_LivingDamaged ==
    th.pc = "snapshot" =>
       \A n \in DOMAIN HitsOf(SERVER.events) :
          LET e == HitsOf(SERVER.events)[n]
          IN  (PlayerActive(e.live_players[e.hit_player]) /\ e.health_before > 0)
                 => e.health_after = e.health_before - BULLET_DAMAGE

\* C34: a shot hits only an active, living player, so that no slot has more
\* than one entry in the respawn queue, and update_respawns respawns only a
\* player that is active and dead
C34_LivingOnly ==
    /\ th.pc = "snapshot" =>
          \A n \in DOMAIN HitsOf(SERVER.events) :
             LET e == HitsOf(SERVER.events)[n]
             IN  /\ PlayerActive(e.live_players[e.hit_player])
                 /\ e.health_before > 0
    /\ \A i \in Slots : Len(QueuedFor(SERVER, i)) <= 1
    /\ \A n \in DOMAIN RespawnsOf(SERVER.events) :
          LET e == RespawnsOf(SERVER.events)[n]
          IN  PlayerActive(e.was) /\ e.was.health = 0

\* a shot hit a player whose health was 0 already
C34_DeadHitSeen ==
    /\ th.pc = "snapshot"
    /\ \E n \in DOMAIN HitsOf(SERVER.events) :
          HitsOf(SERVER.events)[n].health_before = 0
    /\ \E i \in Slots : Len(QueuedFor(SERVER, i)) >= 2

\* update_respawns reset a player that was alive
C34_LivingRespawnedSeen ==
    \E n \in DOMAIN RespawnsOf(SERVER.events) :
       RespawnsOf(SERVER.events)[n].was.health > 0

----------------------------------------------------------------------------
(* time.hpp: fixed_map<uint32_t, PeerState, MAX_PEERS>, the peer table, with
   its entries and probe sequences.  A key stands for a peer id; its hash is
   given by the scenario through the index hash & mask the probe starts at. *)

\* round_up_power_of_2(N + N / 2) for N = MAX_PEERS
table_size == 32

EmptyEntry == [state |-> 0, key |-> 0, hash |-> 0]

\* fixed_map() = default
fixed_map_new ==
    [m_data |-> [i \in 0..(table_size - 1) |-> EmptyEntry], m_size |-> 0,
     m_tombstones |-> 0]

\* a probe that has looked at every entry without returning is back where it
\* started with nothing changed: the while (true) loop does not end
Endless == [ends |-> FALSE]

\* the loop of fixed_map::get
RECURSIVE GetProbe(_, _, _, _)
GetProbe(m, key, idx, looked) ==
    LET e == m.m_data[idx]
    IN  IF looked = table_size THEN Endless
        ELSE IF e.state = 0 THEN [ends |-> TRUE, found |-> FALSE]
        ELSE IF e.state = 1 /\ e.key = key THEN [ends |-> TRUE, found |-> TRUE]
        ELSE GetProbe(m, key, (idx + 1) % table_size, looked + 1)

\* fixed_map::get
fixed_map_get(m, key, hash) ==
    IF m.m_size = 0 THEN [ends |-> TRUE, found |-> FALSE]
    ELSE GetProbe(m, key, hash % table_size, 0)

\* the loop of fixed_map::insert
RECURSIVE InsertProbe(_, _, _, _, _, _)
InsertProbe(m, key, hash, idx, first_deleted, looked) ==
    LET e == m.m_data[idx]
        target == IF first_deleted # -1 THEN first_deleted ELSE idx
    IN  IF looked = table_size THEN Endless
        ELSE IF e.state = 0
        THEN [ends |-> TRUE,
              m |-> [m EXCEPT !.m_data[target] = [state |-> 1, key |-> key, hash |-> hash],
                              !.m_tombstones = IF first_deleted # -1 THEN @ - 1 ELSE @,
                              !.m_size = @ + 1]]
        ELSE IF e.state = 2 /\ first_deleted = -1
        THEN InsertProbe(m, key, hash, (idx + 1) % table_size, idx, looked + 1)
        ELSE IF e.state = 1 /\ e.key = key THEN [ends |-> TRUE, m |-> m]
        ELSE InsertProbe(m, key, hash, (idx + 1) % table_size, first_deleted, looked + 1)

\* fixed_map::insert
fixed_map_insert(m, key, hash) ==
    IF m.m_size >= MAX_PEERS THEN [ends |-> TRUE, m |-> m]
    ELSE InsertProbe(m, key, hash, hash % table_size, -1, 0)

\* the loop of fixed_map::remove
RECURSIVE RemoveProbe(_, _, _, _)
RemoveProbe(m, key, idx, looked) ==
    LET e == m.m_data[idx]
    IN  IF looked = table_size THEN Endless
        ELSE IF e.state = 0 THEN [ends |-> TRUE, m |-> m]
        ELSE IF e.state = 1 /\ e.key = key
        THEN [ends |-> TRUE,
              m |-> [m EXCEPT !.m_data[idx].state = 2,
                              !.m_size = @ - 1,
                              !.m_tombstones = @ + 1]]
        ELSE RemoveProbe(m, key, (idx + 1) % table_size, looked + 1)

\* fixed_map::remove
fixed_map_remove(m, key, hash) ==
    IF m.m_size = 0 THEN [ends |-> TRUE, m |-> m]
    ELSE RemoveProbe(m, key, hash % table_size, 0)

\* the index the probe for the k-th peer of a scenario starts at
HashOf(k) == (k * cfg.stride) % table_size

\* the keys in occupied entries
KeysOf(m) == {m.m_data[i].key : i \in {j \in 0..(table_size - 1) : m.m_data[j].state = 1}}

\* peers whose ids hash to indices spread over the table connect and are
\* removed again, at most MapLive of them in the table at a time
Churn == [name |-> "churn", stride |-> table_size \div 8 + 1, live |-> MapLive]

\* the same with peers whose ids all hash to one index
Clash == [name |-> "clash", stride |-> 0, live |-> MapLive]

MapInit ==
    /\ cfg \in {Churn, Clash}
    /\ app = [peers |-> fixed_map_new, next |-> 1, last |-> NoCall]
    /\ th = [pc |-> "idle"]
    /\ budget = [adds |-> MapAdds]
    /\ net = <<>>
    /\ qs = <<>>
    /\ SERVER = <<>>
    /\ CLIENT = <<>>

\* network_add_peer for an address that was not seen before: the size check,
\* peers.get(peer_id), peers.insert(peer_id, peer)
MapAddPeer ==
    /\ th.pc = "idle"
    /\ budget.adds > 0
    /\ app.peers.m_size < cfg.live
    /\ LET key == app.next
           got == fixed_map_get(app.peers, key, HashOf(key))
           put == fixed_map_insert(app.peers, key, HashOf(key))
       IN  IF app.peers.m_size >= MAX_PEERS
           THEN /\ app' = [app EXCEPT !.last = [op |-> "add", key |-> key], !.next = @ + 1]
                /\ th' = th
           ELSE IF ~got.ends \/ (~got.found /\ ~put.ends)
           THEN /\ app' = [app EXCEPT !.last = [op |-> "add", key |-> key]]
                /\ th' = [th EXCEPT !.pc = "looping"]
           ELSE /\ app' = [app EXCEPT !.peers = IF got.found THEN @ ELSE put.m,
                                      !.last = [op |-> "add", key |-> key],
                                      !.next = @ + 1]
                /\ th' = th
    /\ budget' = [budget EXCEPT !.adds = @ - 1]
    /\ UNCHANGED <<CLIENT, SERVER, net, cfg, qs>>

\* network_remove_peer for a peer of the table: peers.get(peer_id), then
\* peers.remove(peer_id)
MapRemovePeer ==
    /\ th.pc = "idle"
    /\ \E key \in KeysOf(app.peers) :
        LET got == fixed_map_get(app.peers, key, HashOf(key))
            cut == fixed_map_remove(app.peers, key, HashOf(key))
        IN  IF ~got.ends \/ (got.found /\ ~cut.ends)
            THEN /\ app' = [app EXCEPT !.last = [op |-> "remove", key |-> key]]
                 /\ th' = [th EXCEPT !.pc = "looping"]
            ELSE /\ app' = [app EXCEPT !.peers = IF got.found THEN cut.m ELSE @,
                                       !.last = [op |-> "remove", key |-> key]]
                 /\ th' = th
    /\ UNCHANGED <<CLIENT, SERVER, net, cfg, budget, qs>>

\* peers.get(peer_id) as network_poll and network_send make it: for a peer of
\* the table, for one that was removed, or for an address never seen
MapLookup ==
    /\ th.pc = "idle"
    /\ app.last.op # "get"
    /\ \E key \in KeysOf(app.peers) \cup {1, app.next} :
        LET got == fixed_map_get(app.peers, key, HashOf(key))
        IN  IF ~got.ends
            THEN /\ app' = [app EXCEPT !.last = [op |-> "get", key |-> key]]
                 /\ th' = [th EXCEPT !.pc = "looping"]
            ELSE /\ app' = [app EXCEPT !.last = [op |-> "get", key |-> key,
                                                 found |-> got.found]]
                 /\ th' = th
    /\ UNCHANGED <<CLIENT, SERVER, net, cfg, budget, qs>>

MapNext ==
    \/ MapAddPeer
    \/ MapRemovePeer
    \/ MapLookup

MapSpec == MapInit /\ [][MapNext]_vars

----------------------------------------------------------------------------
(* C35: the probes of the peer table *)

EmptyEntries(m) == {i \in 0..(table_size - 1) : m.m_data[i].state = 0}

\* the counters of the map say what its entries hold, and no more than
\* MAX_PEERS entries are occupied
C35_Counters ==
    LET m == app.peers
    IN  /\ m.m_size = Cardinality(KeysOf(m))
        /\ m.m_size <= MAX_PEERS
        /\ m.m_tombstones
             = Cardinality({i \in 0..(table_size - 1) : m.m_data[i].state = 2})

\* a lookup finds exactly the keys that are in the table
C35_LookupRight ==
    (app.last.op = "get" /\ th.pc = "idle")
        => (app.last.found <=> app.last.key \in KeysOf(app.peers))

\* C35: the peer table always has an empty entry, and every get and insert
\* on it returns
C35_ProbesEnd ==
    /\ EmptyEntries(app.peers) # {}
    /\ th.pc # "looping"

\* more peers than the table has entries have been added and removed, and
\* the calls made on the table since have returned
C35_ChurnSeen ==
    /\ app.next > table_size + 1
    /\ th.pc = "idle"
    /\ app.last.op = "get"

\* a call on the table is in a probe that does not end
C35_EndlessSeen ==
    /\ th.pc = "looping"
    /\ EmptyEntries(app.peers) = {}

----------------------------------------------------------------------------
(* C36: the entry find_local returns *)

\* what find_local returns is the element at position player_idx of the
\* snapshot's player array, a zeroed Player when fewer were pushed
C36_ReadByPosition ==
    \A k \in 1..Len(SnapshotsSeen) :
        LET e == SnapshotsSeen[k]
        IN  e.player_idx >= 0 =>
              /\ ~e.local.null
              /\ e.local.player = IF e.player_idx + 1 <= Len(e.snapshot.players)
                                  THEN e.snapshot.players[e.player_idx + 1]
                                  ELSE ValuePlayer

\* C36: the entry the client reconciles against is the entry of the snapshot
\* whose player_idx is the index the CONNECT_ACCEPT gave the client, also when
\* lower slots are inactive and left out of the list
C36_OwnEntry ==
    \A k \in 1..Len(SnapshotsSeen) :
        LET e == SnapshotsSeen[k]
        IN  e.player_idx >= 0 =>
              /\ EntriesOf(e) # {}
              /\ ~e.local.null
              /\ \E i \in EntriesOf(e) : e.local.player = e.snapshot.players[i]

\* a snapshot in which a lower slot is left out, reconciled against an
\* element that is not the client's entry
C36_OtherEntrySeen ==
    \E k \in 1..Len(SnapshotsSeen) :
        LET e == SnapshotsSeen[k]
        IN  /\ e.player_idx = 1
            /\ Len(e.snapshot.players) = 1
            /\ e.snapshot.players[1].player_idx = 1
            /\ e.local.player.player_idx # 1

\* a snapshot without gaps below the client's slot, reconciled against the
\* client's entry
C36_OwnEntrySeen ==
    \E k \in 1..Len(SnapshotsSeen) :
        LET e == SnapshotsSeen[k]
        IN  /\ e.player_idx = 1
            /\ Len(e.snapshot.players) = 2
            /\ e.local.player = e.snapshot.players[2]
            /\ e.local.player.player_idx = 1

----------------------------------------------------------------------------
(* C37: the connection request on a lossy wire.  The CONNECT_REQUEST init
   sent is in flight; the network delivers it or loses it.  The server sends
   nothing to the client before a CONNECT_REQUEST has reached it. *)

\* the network hands the CONNECT_REQUEST in flight to the server
Deliver ==
    /\ app.wire = "flying"
    /\ app' = [app EXCEPT !.wire = "heard"]
    /\ UNCHANGED <<SERVER, CLIENT, net, cfg, budget, qs, th>>

\* the network loses the CONNECT_REQUEST in flight
Lose ==
    /\ app.wire = "flying"
    /\ app' = [app EXCEPT !.wire = "lost"]
    /\ UNCHANGED <<SERVER, CLIENT, net, cfg, budget, qs, th>>

\* the client alone on the server, behind a wire that loses datagrams
Lossy ==
    [earlier |-> FALSE, gone |-> {FALSE}, spawn |-> SpawnAt(<<Position(3, 0), Position(0, 3)>>),
     accept_times |-> {Millis(2000)}, lags |-> {0, 1}, offsets |-> {0},
     moves |-> {Position(1, 0), Position(2, 0)}, naps |-> {2500},
     recvs |-> LossyRecvs, frames |-> LossyFrames]

ConnectInit ==
    /\ cfg = Lossy
    /\ CLIENT = init
    /\ SERVER = <<>>
    /\ th = [pc |-> "init", waited |-> 0]
    /\ app = [sent |-> 0, accepted |-> FALSE, wire |-> "flying"]
    /\ budget = [recvs |-> cfg.recvs, frames |-> cfg.frames]
    /\ net = <<>>
    /\ qs = <<>>

ConnectNext ==
    \/ Deliver
    \/ Lose
    \/ ClientReceive
    \/ ClientWait
    \/ ClientAdjust
    \/ ClientUpdate

ConnectSpec == ConnectInit /\ [][ConnectNext]_vars

\* ClientReceive can take a step: the server has heard of the client and
\* sends to it
Receivable ==
    /\ th.pc \in {"init", "adjust", "update"}
    /\ budget.recvs > 0
    /\ app.wire = "heard"

\* the main thread keeps running its loops, a datagram in flight is delivered
\* or lost, and the receive thread takes what the server sends (weak fairness
\* of ClientReceive, with its enabling condition written out)
FairConnectSpec ==
    /\ ConnectSpec
    /\ WF_vars(ClientWait)
    /\ WF_vars(Deliver \/ Lose)
    /\ ([]<>(~Receivable) \/ []<><<ClientReceive>>_vars)

\* Receivable is the enabling condition of ClientReceive
C37_ReceivableRight == (ServerPayloads # {}) <=> (app.wire = "heard")

\* no pass of init's waiting loop puts a datagram on the socket
C37_WaitSendsNothing == [][ClientWait => CLIENT'.net.socket_out = <<>>]_vars

\* a lost CONNECT_REQUEST ends in the timeout of init
C37_LostTimesOut == (app.wire = "lost") ~> (th.pc = "failed")

\* C37: a CONNECT_REQUEST lost on the wire while the client waits in init is
\* sent again, and the client becomes connected instead of timing out
C37_LostRequestRecovered == (app.wire = "lost") ~> CLIENT.connected

\* the request was lost and init has given up
C37_TimeoutSeen ==
    /\ app.wire = "lost"
    /\ th.pc = "failed"
    /\ ~CLIENT.connected
    /\ CLIENT.net.peers[ServerPeer].present
    /\ CLIENT.net.peers[ServerPeer].window_mask # {}

\* the request was delivered and the client is connected
C37_ConnectedSeen == app.wire = "heard" /\ CLIENT.connected /\ th.pc = "adjust"

----------------------------------------------------------------------------
(* C38: the inputs the server applies.  Nothing is lost or reordered: the
   server has buffered the inputs 0..seen of the client's history, in order,
   and drains them in tick. *)

\* the server after the client's inputs up to seen
ServedUpTo(seen) ==
    Served(Session(cfg.earlier, cfg.spawn), FALSE, CLIENT.input_history, seen)

\* the sequence numbers of the events of kind ev the drain logged for the
\* client's player
DrainedAs(srv, ev) ==
    LET idx == find_player_index_for_peer(srv, 1)
        mine == SelectSeq(srv.events, LAMBDA e : e.ev = ev /\ e.player_idx = idx)
    IN  [k \in 1..Len(mine) |-> mine[k].sequence_num]

\* the numbers the client has given to inputs, in order
RECURSIVE Counted(_, _)
Counted(from, to) ==
    IF from > to THEN <<>> ELSE <<from>> \o Counted(from + 1, to)

\* the most recent input of the client, and the inputs delivered in the
\* scenario
LastSent == CLIENT.input_sequence - 1

Delivered == {LastSent - lag : lag \in cfg.lags} \cap (0..LastSent)

\* the server applies the delivered inputs 1..seen once each and in order,
\* skips input 0, and ends with last_processed = seen
C38_AllButFirst ==
    \A seen \in Delivered :
        LET srv == ServedUpTo(seen)
        IN  /\ DrainedAs(srv, "input") = Counted(1, seen)
            /\ DrainedAs(srv, "stale") = <<0>>
            /\ srv.clients[find_player_index_for_peer(srv, 1)].last_processed = seen

\* C38: without loss or reordering every input the client has sent, the first
\* one included, is applied by the server exactly once: after the drain
\* last_processed is the number of the most recently delivered input, and the
\* client replays none of the inputs the server applied
C38_EveryInputApplied ==
    \A seen \in Delivered :
        LET srv == ServedUpTo(seen)
            idx == find_player_index_for_peer(srv, 1)
        IN  /\ DrainedAs(srv, "input") = Counted(0, seen)
            /\ srv.clients[idx].last_processed = seen
            /\ \A k \in 1..Len(CLIENT.input_history) :
                  LET input == CLIENT.input_history[k]
                  IN  input.sequence_num > srv.clients[idx].last_processed
                        => input.sequence_num > seen

\* the client's first input is the only one delivered, and the server's
\* player is still at its spawn point
C38_FirstSkippedSeen ==
    /\ Len(CLIENT.input_history) = 1
    /\ CLIENT.input_history[1].sequence_num = 0
    /\ 0 \in Delivered
    /\ LET srv == ServedUpTo(0)
           idx == find_player_index_for_peer(srv, 1)
       IN  /\ srv.frame.players[idx].position # CLIENT.input_history[1].move
           /\ srv.frame.players[idx].position
                = Session(cfg.earlier, cfg.spawn).frame.players[idx].position
           /\ CLIENT.local_player.position = CLIENT.input_history[1].move

\* several inputs delivered and applied
C38_LaterAppliedSeen ==
    \E seen \in Delivered :
        /\ seen >= 2
        /\ DrainedAs(ServedUpTo(seen), "input") = Counted(1, seen)

----------------------------------------------------------------------------
(* C39: the stamp of a stored snapshot *)

\* the timestamp process_snapshot stores is the client's clock estimate at the
\* moment the message is processed, and the last entry of the ring is the
\* snapshot it stored
C39_StampIsEstimate ==
    \A k \in 1..Len(SnapshotsSeen) :
        LET e == SnapshotsSeen[k]
        IN  /\ e.snapshot.timestamp = e.estimate
            /\ Len(CLIENT.snapshots) > 0
            /\ k = Len(SnapshotsSeen) => CLIENT.snapshots[Len(CLIENT.snapshots)] = e.snapshot

\* C39: the timestamp stored for a snapshot in the client's ring is the
\* server_time the snapshot message carried, whatever the client's own
\* estimate of the server's clock is
C39_StampIsServerTime ==
    \A k \in 1..Len(SnapshotsSeen) :
        LET e == SnapshotsSeen[k]
        IN  e.snapshot.timestamp = e.msg.server_time

\* a snapshot stamped by the server with a time 200 ms from the client's
\* estimate and stored under the estimate
C39_RestampedSeen ==
    \E k \in 1..Len(SnapshotsSeen) :
        LET e == SnapshotsSeen[k]
        IN  /\ Abs(e.msg.server_time - e.estimate) >= Millis(200)
            /\ e.snapshot.timestamp = e.estimate
            /\ e.snapshot.players = Dequantized(e.msg.players)

----------------------------------------------------------------------------
(* C40: which acknowledgement frees a window slot *)

\* a reliable packet, unreliable ones up to a full turn of the slots behind
\* it, and a packet whose number has the slot of the first; the peer
\* acknowledges the first number or the last, once or again
Stale ==
    [name |-> "stale", server |-> FALSE,
     dests |-> {1}, senders |-> {1},
     rel_seqs |-> {1, WINDOW_SIZE + 1},
     unrel_seqs |-> 1..(WINDOW_SIZE + StaleExtra),
     seqs |-> {1, 2}, acks |-> {1, WINDOW_SIZE + 1},
     ack_bits |-> {{}, {WINDOW_SIZE - 1}},
     sizes |-> {HEADER_SIZE + 1},
     arrive_at |-> WINDOW_SIZE..(WINDOW_SIZE + StaleExtra),
     dts |-> {},
     sends |-> WINDOW_SIZE + StaleExtra, recvs |-> StaleRecvs, updates |-> 0,
     adds |-> 1, settle |-> 0]

AckInit == InitOf({Stale, Acks})

AckSpec == AckInit /\ [][Next]_vars

\* the header of the reliable packet kept for a window slot
StoredPacket(n, id, slot) == n.packet_pool[n.peers[id].window[slot].buffer_idx]

\* the descriptors of the last poll that come from peer id and were examined
ExaminedFrom(a, id) ==
    IF a.last.op # "poll" THEN <<>>
    ELSE SelectSeq(a.last.log, LAMBDA e : e.from = id /\ (e.known \/ e.is_new))

\* the slots of peer id that a step frees while the peer stays in the table
Freed(id) ==
    IF net.peers[id].present /\ net'.peers[id].present
    THEN net.peers[id].window_mask \ net'.peers[id].window_mask
    ELSE {}

\* every pending reliable packet is numbered within WINDOW_SIZE of
\* window_start, in the slot of its number, and was sent reliably
C40_PendingInWindow ==
    \A id \in PeerIds :
        net.peers[id].present =>
            \A slot \in net.peers[id].window_mask :
                LET packet == StoredPacket(net, id, slot)
                    diff == CALCULATE_SEQUENCE_OFFSET(packet.sequence,
                                                      net.peers[id].window_start)
                IN  /\ packet.reliable
                    /\ MAP_SEQUENCE_TO_WINDOW_SLOT(packet.sequence) = slot
                    /\ diff >= 0
                    /\ diff < WINDOW_SIZE

\* C40: a window slot of a peer is freed only by a poll that examined a
\* header of that peer acknowledging exactly the sequence number of the
\* reliable packet stored in the slot; an acknowledged number that only shares
\* the slot (an unreliable packet's, or a stale one) frees nothing
C40_ExactRelease ==
    [][\A id \in PeerIds :
          \A slot \in Freed(id) :
              /\ app'.last.op = "poll"
              /\ \E i \in DOMAIN ExaminedFrom(app', id) :
                    StoredPacket(net, id, slot).sequence
                        \in AckedSeqs(ExaminedFrom(app', id)[i].header)]_vars

\* a poll examined a header that acknowledges a number with the slot of a
\* pending reliable packet but not that packet's number, and the packet is
\* still pending
C40_Witness ==
    /\ app.last.op = "poll"
    /\ \E slot \in net.peers[1].window_mask :
       \E i \in DOMAIN ExaminedFrom(app, 1) :
          LET e == ExaminedFrom(app, 1)[i]
          IN  /\ slot \in e.window_mask
              /\ \E q \in AckedSeqs(e.header) : MAP_SEQUENCE_TO_WINDOW_SLOT(q) = slot
              /\ StoredPacket(net, 1, slot).sequence \notin AckedSeqs(e.header)

\* the number acknowledged without effect is that of an unreliable packet
\* sent a full turn of the slots after the pending one
C40_UnreliableAckSeen ==
    /\ app.last.op = "poll"
    /\ 1 \in net.peers[1].window_mask
    /\ StoredPacket(net, 1, 1).sequence = 1
    /\ \E i \in DOMAIN ExaminedFrom(app, 1) :
          ExaminedFrom(app, 1)[i].header.ack = WINDOW_SIZE + 1

\* the number acknowledged without effect is a stale one: the packet that
\* had the slot a turn earlier
C40_StaleAckSeen ==
    /\ app.last.op = "poll"
    /\ 1 \in net.peers[1].window_mask
    /\ StoredPacket(net, 1, 1).sequence = WINDOW_SIZE + 1
    /\ \E i \in DOMAIN ExaminedFrom(app, 1) :
          /\ ExaminedFrom(app, 1)[i].header.ack = 1
          /\ ExaminedFrom(app, 1)[i].header.ack_bits = {}

\* a poll freed the slot of a packet whose number was acknowledged
C40_ReleaseSeen ==
    /\ app.last.op = "poll"
    /\ net.peers[1].window_mask = {}
    /\ \E i \in DOMAIN ExaminedFrom(app, 1) :
          LET e == ExaminedFrom(app, 1)[i]
          IN  /\ e.window_mask = {1}
              /\ e.header.ack = WINDOW_SIZE + 1

====
